---- MODULE Spec2Model ----
(***************************************************************************)
(* Concurrent query harness of retail-rag-web-app: the shared credential   *)
(* of DataverseSearchClient (multi_thread_runner.py and                    *)
(* multi_thread_unified_search.py) and the worker pool with its            *)
(* ProgressTracker, signal handler and finalization (the runner, the       *)
(* unified and the agentic script).                                        *)
(*                                                                         *)
(* SpecCred is the credential client under concurrent search() calls.      *)
(* Spec is one run of main(): the pool, the tracker, the signals.          *)
(* SpecBatch is one run of smart_batch_runner.py, which resumes from a     *)
(* checkpoint. SpecQuery is one question from its first request to the     *)
(* result recorded for it. SpecStore is the credential file under its      *)
(* writers, SpecToken the token manager of the unified script, SpecExit    *)
(* a process from its start to its exit code. SpecScore is one call of a   *)
(* relevance scorer, SpecMetric the ranking metrics of one query.          *)
(* SpecF1 is the overall F1 of a set of queries. SpecCredFair is SpecCred   *)
(* and SpecQuiet is Spec without signals, each with its threads scheduled. *)
(* The variable variant says which script is running.                      *)
(***************************************************************************)
EXTENDS Integers, Sequences, FiniteSets, TLC

\* ----------------------------------------------------------------- bounds
NumWorkers == 2        \* worker threads of the pool
MaxSearches == 2       \* search() calls one worker makes in SpecCred
NumItems == 2          \* questions submitted to the pool in Spec
MaxSignals == 2        \* interrupt signals delivered in one run
BatchSize == 1         \* batch_size of the smart batch runner
MaxSaves == 3          \* credentials obtained and stored one after another
MaxPolls == 3          \* polls of the token endpoint that fit into expires_in

Workers == 1..NumWorkers
Items == 1..NumItems
NoOne == 0             \* a free lock

\* retry_count=1 as process_single_question passes it to client.search
RetryCount == 1
\* max_retries=2, the default of process_single_question
MaxRetries == 2

VARIABLES
    variant,           \* the script that runs: "runner", "unified", "agentic", ...
    \* ---- the credential client (SpecCred)
    token,             \* self.token, as the generation of the credential
    headersAuth,       \* self.headers["Authorization"]
    tokenFile,         \* runner: content of token.config
    cacheToken,        \* unified: token_manager._token_cache["access_token"]
    tok0,              \* age of the initial credential: fresh | buffer | expired
    tokenLock,         \* holder of self._token_lock, NoOne when free
    checkDue,          \* time.time() - _last_token_check >= _token_check_interval
    netRefreshCalls,   \* refresh attempts that went to the identity endpoint
    failedRefreshes,   \* those of them that failed
    lastRefreshed,     \* credential of the latest completed refresh, 0 if none
    cw,                \* per worker: position in search() and its locals
    \* ---- one run of main() (Spec)
    mstack,            \* call stack of the main thread: main, signal handlers, finalize_output
    procState,         \* "running" | "exited" (interpreter exit) | "killed" (os._exit)
    signals,           \* interrupt signals delivered so far
    interrupt_count,   \* the global of the unified and agentic scripts
    shutdown_requested,
    tracker,           \* global_progress_tracker is set and the pool is running
    nextItem,          \* head of the executor's work queue
    outcome,           \* per item: queued | running | skipped | raised | recorded
    pw,                \* per pool thread: position in process_single_question
    counters,          \* completed, successful, failed, results_written of the tracker
    trackerLock,       \* holder of ProgressTracker.lock, NoOne when free
    finalized,         \* ProgressTracker.finalized
    log,               \* the *_results.jsonl file: item of each record, in file order
    ckpt,              \* the *_checkpoint.json file
    report,            \* the *_final.json file
    finalizeRuns,      \* times the body of finalize_output has run to its end
    \* ---- smart_batch_runner.py (SpecBatch)
    bpc,               \* position of process_all_questions
    priorRun,          \* what the run before this one had counted when it stopped
    ckptFile,          \* the checkpoint file under the name this run computes
    startIndex,        \* start_index
    batchStart,        \* i of the batch loop
    \* ---- one query from first request to terminal result (SpecQuery)
    q,
    \* ---- the stored credential record and its writer (SpecStore)
    store,
    \* ---- EnhancedTokenManager.get_valid_access_token (SpecToken)
    tm,
    \* ---- start and exit of the process (SpecExit)
    proc,
    \* ---- relevance scoring and metrics (SpecScore, SpecMetric)
    ev

credVars == <<token, headersAuth, tokenFile, cacheToken, tok0, tokenLock, checkDue,
              netRefreshCalls, failedRefreshes, lastRefreshed, cw>>

runVars == <<mstack, procState, signals, interrupt_count, shutdown_requested, tracker,
             nextItem, outcome, pw, counters, trackerLock, finalized, log,
             ckpt, report, finalizeRuns>>

batchVars == <<bpc, priorRun, ckptFile, startIndex, batchStart>>

queryVars == <<q>>

toolVars == <<store, tm, proc, ev>>

vars == <<variant, credVars, runVars, batchVars, queryVars, toolVars>>

\* ------------------------------------------------------ credential client

\* A credential obtained by a refresh stays fresh for the rest of the run;
\* only the credential the run started with ages.
Status(g) == IF g = 0 THEN tok0 ELSE "fresh"

\* _is_token_valid / _is_access_token_valid: not inside the 5-minute buffer.
TokenValid(g) == Status(g) = "fresh"

\* The remote service rejects a credential only once it has really expired.
ServerAccepts(g) == Status(g) # "expired"

\* What _is_token_valid() of the client looks at: the runner decodes
\* self.token, the unified client asks the token manager about its cache.
ClientValid == IF variant = "runner" THEN TokenValid(token) ELSE TokenValid(cacheToken)

CredWorkerInit == [pc |-> "idle", attempt |-> 0, path |-> "none", got |-> 0,
                   reqToken |-> 0, reqAfter |-> 0, n |-> 0, result |-> "none"]

CredInit ==
    /\ token = 0 /\ headersAuth = 0 /\ tokenFile = 0 /\ cacheToken = 0
    /\ tok0 = "fresh"
    /\ tokenLock = NoOne
    /\ checkDue = FALSE
    /\ netRefreshCalls = 0 /\ failedRefreshes = 0 /\ lastRefreshed = 0
    /\ cw = [w \in Workers |-> CredWorkerInit]

\* search() returns: the worker is back in process_single_question.
Return(w, res) == [cw[w] EXCEPT !.pc = "idle", !.result = res, !.n = @ + 1,
                                !.path = "none"]

\* result.get("requires_manual_token_refresh"): the runner sets the key in
\* the two results it returns when a refresh failed; the unified script has
\* the key (and error_type) commented out of every result.
RequiresManualTokenRefresh(res) ==
    variant = "runner" /\ res \in {"TokenExpiredError", "TokenRefreshError"}

\* A worker calls client.search(): attempt 0, the proactive check comes first.
CStart(w) ==
    /\ cw[w].pc = "idle" /\ cw[w].n < MaxSearches
    /\ cw' = [cw EXCEPT ![w].pc = "check", ![w].attempt = 0, ![w].result = "none"]
    /\ UNCHANGED <<toolVars, queryVars, batchVars, runVars, variant, token, headersAuth, tokenFile, cacheToken, tok0, tokenLock,
                   checkDue, netRefreshCalls, failedRefreshes, lastRefreshed>>

\* _check_and_refresh_token_if_needed, before the lock: the interval test.
CIntervalCheck(w) ==
    /\ cw[w].pc = "check"
    /\ cw' = [cw EXCEPT ![w].pc = IF checkDue THEN "wantLock" ELSE "send",
                        ![w].path = IF checkDue THEN "proactive" ELSE "none"]
    /\ UNCHANGED <<toolVars, queryVars, batchVars, runVars, variant, token, headersAuth, tokenFile, cacheToken, tok0, tokenLock,
                   checkDue, netRefreshCalls, failedRefreshes, lastRefreshed>>

\* token_manager.get_valid_access_token() called with _token_lock held
\* (unified): the cached credential, or a refresh over the network. A
\* credential that differs from self.token goes to _update_token_and_headers,
\* which takes _token_lock again: the thread waits for itself.
UnifiedGetValid(w, onSame) ==
    IF TokenValid(cacheToken)
    THEN /\ IF cacheToken # token
            THEN cw' = [cw EXCEPT ![w].pc = "selfLocked"]
            ELSE cw' = [cw EXCEPT ![w].pc = onSame,
                                  ![w].attempt = IF cw[w].path = "auth" THEN 1 ELSE @]
         /\ tokenLock' = IF cacheToken # token THEN w ELSE NoOne
         /\ UNCHANGED netRefreshCalls
    ELSE /\ cw' = [cw EXCEPT ![w].pc = "refreshing", ![w].got = netRefreshCalls + 1]
         /\ tokenLock' = w
         /\ netRefreshCalls' = netRefreshCalls + 1

\* _check_and_refresh_token_if_needed with the lock: _last_token_check is
\* set, then the validity test. The runner goes on to refresh_token_if_needed
\* and from there to _reload_token_from_file, which takes _token_lock again.
CProactive(w) ==
    /\ cw[w].pc = "wantLock" /\ tokenLock = NoOne
    /\ checkDue' = FALSE
    /\ IF variant = "runner"
       THEN /\ IF TokenValid(token)
               THEN cw' = [cw EXCEPT ![w].pc = "send"] /\ tokenLock' = NoOne
               ELSE cw' = [cw EXCEPT ![w].pc = "selfLocked"] /\ tokenLock' = w
            /\ UNCHANGED netRefreshCalls
       ELSE UnifiedGetValid(w, "send")
    /\ UNCHANGED <<toolVars, queryVars, batchVars, runVars, variant, token, headersAuth, tokenFile, cacheToken, tok0,
                   failedRefreshes, lastRefreshed>>

\* requests.post(..., headers=self.headers): the request leaves with the
\* Authorization header as it is now.
CSend(w) ==
    /\ cw[w].pc = "send"
    /\ cw' = [cw EXCEPT ![w].pc = "wait", ![w].reqToken = headersAuth,
                        ![w].reqAfter = lastRefreshed]
    /\ UNCHANGED <<toolVars, queryVars, batchVars, runVars, variant, token, headersAuth, tokenFile, cacheToken, tok0, tokenLock,
                   checkDue, netRefreshCalls, failedRefreshes, lastRefreshed>>

\* The response: 200, or an authorization error (always when the service
\* rejects the credential; possibly for another reason when it accepts it).
\* An authorization error on the last attempt is a plain HTTPError result.
CRespond(w, status) ==
    /\ cw[w].pc = "wait"
    /\ status \in {200, 401}
    /\ ~ServerAccepts(cw[w].reqToken) => status = 401
    /\ cw' = IF status = 200 THEN [cw EXCEPT ![w] = Return(w, "success")]
             ELSE IF cw[w].attempt < RetryCount THEN [cw EXCEPT ![w].pc = "authError"]
             ELSE [cw EXCEPT ![w] = Return(w, "HTTPError")]
    /\ UNCHANGED <<toolVars, queryVars, batchVars, runVars, variant, token, headersAuth, tokenFile, cacheToken, tok0, tokenLock,
                   checkDue, netRefreshCalls, failedRefreshes, lastRefreshed>>

\* The 401/403 branch of search(): _is_token_valid(), without the lock. A
\* credential that looks valid is retried as it is; otherwise
\* refresh_token_if_needed() is entered.
CAuthCheck(w) ==
    /\ cw[w].pc = "authError"
    /\ cw' = IF ClientValid
             THEN [cw EXCEPT ![w].pc = "send", ![w].attempt = 1]
             ELSE [cw EXCEPT ![w].pc = IF variant = "runner" THEN "reload" ELSE "wantRefresh",
                             ![w].path = "auth"]
    /\ UNCHANGED <<toolVars, queryVars, batchVars, runVars, variant, token, headersAuth, tokenFile, cacheToken, tok0, tokenLock,
                   checkDue, netRefreshCalls, failedRefreshes, lastRefreshed>>

\* runner, refresh_token_if_needed: _reload_token_from_file under the lock,
\* then, with no lock held, _refresh_token_automatic unless the reloaded
\* credential is valid.
CReload(w) ==
    /\ variant = "runner"
    /\ cw[w].pc = "reload" /\ tokenLock = NoOne
    /\ LET changed == tokenFile # token
           reloaded == IF changed THEN tokenFile ELSE token
       IN /\ token' = reloaded
          /\ headersAuth' = IF changed THEN tokenFile ELSE headersAuth
          /\ IF changed /\ TokenValid(reloaded)
             THEN /\ cw' = [cw EXCEPT ![w].pc = "send", ![w].attempt = 1]
                  /\ UNCHANGED netRefreshCalls
             ELSE /\ cw' = [cw EXCEPT ![w].pc = "refreshing",
                                      ![w].got = netRefreshCalls + 1]
                  /\ netRefreshCalls' = netRefreshCalls + 1
    /\ UNCHANGED <<toolVars, queryVars, batchVars, runVars, variant, tokenFile, cacheToken, tok0, tokenLock, checkDue,
                   failedRefreshes, lastRefreshed>>

\* unified, refresh_token_if_needed: the lock, then get_valid_access_token.
CRefreshLocked(w) ==
    /\ variant = "unified"
    /\ cw[w].pc = "wantRefresh" /\ tokenLock = NoOne
    /\ UnifiedGetValid(w, "send")
    /\ UNCHANGED <<toolVars, queryVars, batchVars, runVars, variant, token, headersAuth, tokenFile, cacheToken, tok0, checkDue,
                   failedRefreshes, lastRefreshed>>

\* The identity endpoint answers (refresh token, else device code).
\* runner: success leads to _save_token. unified: the token manager stores
\* the credential in its cache, and the client then calls
\* _update_token_and_headers with _token_lock still held.
CRefreshDone(w, ok) ==
    /\ cw[w].pc = "refreshing"
    /\ IF ok
       THEN /\ UNCHANGED failedRefreshes
            /\ IF variant = "runner"
               THEN /\ cw' = [cw EXCEPT ![w].pc = "save"]
                    /\ UNCHANGED <<cacheToken, lastRefreshed, tokenLock>>
               ELSE /\ cacheToken' = cw[w].got
                    /\ lastRefreshed' = cw[w].got
                    /\ cw' = [cw EXCEPT ![w].pc = "selfLocked"]
                    /\ UNCHANGED tokenLock
       ELSE /\ failedRefreshes' = failedRefreshes + 1
            /\ cw' = [cw EXCEPT ![w] = Return(w, IF cw[w].path = "auth"
                                                 THEN "TokenExpiredError"
                                                 ELSE "TokenRefreshError")]
            /\ tokenLock' = IF variant = "runner" THEN tokenLock ELSE NoOne
            /\ UNCHANGED <<cacheToken, lastRefreshed>>
    /\ UNCHANGED <<toolVars, queryVars, batchVars, runVars, variant, token, headersAuth, tokenFile, tok0, checkDue, netRefreshCalls>>

\* runner, _save_token: file, self.token and the header under the lock;
\* the refresh is complete and search() retries.
CSaveToken(w) ==
    /\ variant = "runner"
    /\ cw[w].pc = "save" /\ tokenLock = NoOne
    /\ tokenFile' = cw[w].got
    /\ token' = cw[w].got
    /\ headersAuth' = cw[w].got
    /\ lastRefreshed' = cw[w].got
    /\ cw' = [cw EXCEPT ![w].pc = "send", ![w].attempt = 1]
    /\ UNCHANGED <<toolVars, queryVars, batchVars, runVars, variant, cacheToken, tok0, tokenLock, checkDue, netRefreshCalls,
                   failedRefreshes>>

\* Time passes: the check interval elapses.
CTick ==
    /\ ~checkDue
    /\ checkDue' = TRUE
    /\ UNCHANGED <<toolVars, queryVars, batchVars, runVars, variant, token, headersAuth, tokenFile, cacheToken, tok0, tokenLock,
                   netRefreshCalls, failedRefreshes, lastRefreshed, cw>>

\* Time passes: the initial credential enters the buffer, then expires.
CAge ==
    /\ tok0 # "expired"
    /\ tok0' = IF tok0 = "fresh" THEN "buffer" ELSE "expired"
    /\ UNCHANGED <<toolVars, queryVars, batchVars, runVars, variant, token, headersAuth, tokenFile, cacheToken, tokenLock, checkDue,
                   netRefreshCalls, failedRefreshes, lastRefreshed, cw>>

\* ---------------------------------------------------------------- at rest

\* The credential record at rest: file is what the credential file holds,
\* field by field, legacy what the legacy token file holds; old is the
\* record stored by the last completed save, new the one being stored.
\* Credentials and renewal secrets are numbered, 0 the ones of the start.
StoreRest(rec) == [pc |-> "idle", file |-> rec, legacy |-> <<rec[1]>>, old |-> rec,
                   new |-> rec, saves |-> 0, crashed |-> FALSE]

\* No write of the credential record under way.
StoreIdle == store = StoreRest(<<0>>)

\* The token manager at rest. cache: the access token of _token_cache as
\* _is_access_token_valid sees it ("none", "fresh", "buffer": within five
\* minutes of expiry, "expired"); refresh: a refresh_token is cached; net:
\* the network calls made so far, each with its answer; cache0 and refresh0:
\* cache and refresh as they were when get_valid_access_token was called.
TokenRest == [pc |-> "idle", cache |-> "none", refresh |-> FALSE, cache0 |-> "none",
              refresh0 |-> FALSE, net |-> <<>>, polls |-> 0, method |-> "none",
              success |-> FALSE]

\* get_valid_access_token not called.
TokenIdle == tm = TokenRest

\* A process before its start. pc: "setup", "run", "drain" (interrupted, the
\* pool is finishing), "exited"; code: the exit code once exited; setupOk:
\* a usable credential was found; interrupts: Ctrl+C received; items: what
\* became of each query; saved: a results file was written.
ProcRest == [pc |-> "idle", code |-> 0, setupOk |-> FALSE, interrupts |-> 0,
             items |-> [i \in Items |-> "queued"], saved |-> FALSE]

\* The start and exit of the process are not looked at.
ExitIdle == proc = ProcRest

\* Nothing is being scored.
EvalIdle == ev = [pc |-> "idle"]

ToolsIdle == StoreIdle /\ TokenIdle /\ ExitIdle /\ EvalIdle

\* ------------------------------------------------------------ one run

\* What client.search() can hand back to process_single_question.
SearchOutcomes == {"ok", "timeout", "http"}

\* result["success"]
Success(o) == o = "ok"

\* result.get("error_type") as process_single_question sees it. The unified
\* script rebuilds the result without an error_type key.
ErrorType(o) ==
    IF o = "ok" \/ variant = "unified" THEN "None"
    ELSE IF variant = "runner"
         THEN (IF o = "timeout" THEN "TimeoutError" ELSE "HTTPError")
         ELSE (IF o = "timeout" THEN "timeout" ELSE "HTTP_error")

\* should_retry of process_single_question (runner, unified); the agentic
\* loop goes on after every failure while attempts are left.
ShouldRetry(o, retry) ==
    IF variant = "agentic"
    THEN ~Success(o) /\ retry < MaxRetries
    ELSE /\ ~Success(o)
         /\ retry < MaxRetries
         /\ ErrorType(o) \in {"TimeoutError", "ConnectionError", "JSONDecodeError"}
         /\ ~shutdown_requested

\* append_result of the unified and agentic trackers writes under self.lock;
\* the runner's writes with no lock.
AppendLocks == variant # "runner"

NoFile == [written |-> FALSE, by |-> 0, completed |-> 0, successful |-> 0,
           failed |-> 0, results |-> 0]

\* _save_checkpoint: the counters as they are read now.
Snapshot(by) == [written |-> TRUE, by |-> by, completed |-> counters.completed,
                 successful |-> counters.successful, failed |-> counters.failed,
                 results |-> counters.results_written]

\* final_data of finalize_output: get_statistics() (successful, failed, and
\* completed through the processing rate; the agentic report also has it as
\* questions_processed) and, in the runner and the unified script, every
\* line of the results file.
Consolidated(by) == [written |-> TRUE, by |-> by, completed |-> counters.completed,
                     successful |-> counters.successful, failed |-> counters.failed,
                     results |-> IF variant = "agentic" THEN 0 ELSE Len(log)]

Top == mstack[Len(mstack)]
Pop == SubSeq(mstack, 1, Len(mstack) - 1)
At(a) == [mstack EXCEPT ![Len(mstack)].at = a]
Frame(who, at, n) == [who |-> who, at |-> at, n |-> n]
Running == procState = "running"

PoolWorkerInit == [pc |-> "idle", item |-> 0, retry |-> 0, res |-> "none", tmp |-> 0]

RunInit ==
    /\ mstack = <<Frame("main", "setup", 0)>>
    /\ procState = "running"
    /\ signals = 0 /\ interrupt_count = 0
    /\ shutdown_requested = FALSE
    /\ tracker = FALSE
    /\ nextItem = 1
    /\ outcome = [i \in Items |-> "queued"]
    /\ pw = [w \in Workers |-> PoolWorkerInit]
    /\ counters = [completed |-> 0, successful |-> 0, failed |-> 0, results_written |-> 0]
    /\ trackerLock = NoOne
    /\ finalized = FALSE
    /\ log = <<>>
    /\ ckpt = NoFile /\ report = NoFile
    /\ finalizeRuns = 0

\* main(): ProgressTracker(...), global_progress_tracker = progress_tracker
\* and the submission of every question to the ThreadPoolExecutor.
MStartPool ==
    /\ Running /\ Top.who = "main" /\ Top.at = "setup"
    /\ tracker' = TRUE
    /\ mstack' = At("pool")
    /\ UNCHANGED <<toolVars, queryVars, batchVars, variant, credVars, procState, signals, interrupt_count,
                   shutdown_requested, nextItem, outcome, pw, counters, trackerLock,
                   finalized, log, ckpt, report, finalizeRuns>>

\* process_single_question as it would be without the test of
\* shutdown_requested at its entry.
WTake_Untested(w) ==
    /\ Running /\ tracker
    /\ pw[w].pc = "idle" /\ nextItem <= NumItems
    /\ nextItem' = nextItem + 1
    /\ outcome' = [outcome EXCEPT ![nextItem] = "running"]
    /\ pw' = [pw EXCEPT ![w] = [pc |-> "search", item |-> nextItem, retry |-> 0,
                                res |-> "none", tmp |-> 0]]
    /\ UNCHANGED <<toolVars, queryVars, batchVars, variant, credVars, mstack, procState, signals, interrupt_count,
                   shutdown_requested, tracker, counters, trackerLock, finalized, log,
                   ckpt, report, finalizeRuns>>

\* A pool thread takes the next question; process_single_question tests
\* shutdown_requested first and returns without recording anything if set.
WTake(w) ==
    /\ Running /\ tracker
    /\ pw[w].pc = "idle" /\ nextItem <= NumItems
    /\ nextItem' = nextItem + 1
    /\ IF shutdown_requested
       THEN /\ outcome' = [outcome EXCEPT ![nextItem] = "skipped"]
            /\ UNCHANGED pw
       ELSE /\ outcome' = [outcome EXCEPT ![nextItem] = "running"]
            /\ pw' = [pw EXCEPT ![w] = [PoolWorkerInit EXCEPT !.pc = "loop",
                                                                !.item = nextItem]]
    /\ UNCHANGED <<toolVars, queryVars, batchVars, variant, credVars, mstack, procState, signals, interrupt_count,
                   shutdown_requested, tracker, counters, trackerLock, finalized, log,
                   ckpt, report, finalizeRuns>>

\* Top of the retry loop. The runner and the unified script test
\* shutdown_requested and break; on the first pass no result is bound yet
\* and result["success"] after the loop raises UnboundLocalError. Otherwise
\* the request is sent.
WLoop(w) ==
    /\ Running
    /\ pw[w].pc = "loop"
    /\ IF variant # "agentic" /\ shutdown_requested
       THEN IF pw[w].retry = 0
            THEN /\ outcome' = [outcome EXCEPT ![pw[w].item] = "raised"]
                 /\ pw' = [pw EXCEPT ![w] = PoolWorkerInit]
            ELSE /\ pw' = [pw EXCEPT ![w].pc = "update"]
                 /\ UNCHANGED outcome
       ELSE /\ pw' = [pw EXCEPT ![w].pc = "search"]
            /\ UNCHANGED outcome
    /\ UNCHANGED <<toolVars, queryVars, batchVars, variant, credVars, mstack, procState, signals, interrupt_count,
                   shutdown_requested, tracker, nextItem, counters, trackerLock,
                   finalized, log, ckpt, report, finalizeRuns>>

\* client.search() returns a result; it replaces the one of the attempt
\* before. Then should_retry.
WSearchReturns(w, o) ==
    /\ Running
    /\ pw[w].pc = "search"
    /\ o \in SearchOutcomes
    /\ pw' = IF ShouldRetry(o, pw[w].retry)
             THEN [pw EXCEPT ![w].pc = "loop", ![w].res = o, ![w].retry = @ + 1]
             ELSE [pw EXCEPT ![w].pc = "update", ![w].res = o]
    /\ UNCHANGED <<toolVars, queryVars, batchVars, variant, credVars, mstack, procState, signals, interrupt_count,
                   shutdown_requested, tracker, nextItem, outcome, counters, trackerLock,
                   finalized, log, ckpt, report, finalizeRuns>>

\* ProgressTracker.update: with self.lock, self.completed += 1.
WUpdateBegin(w) ==
    /\ Running
    /\ pw[w].pc = "update" /\ trackerLock = NoOne
    /\ trackerLock' = w
    /\ counters' = [counters EXCEPT !.completed = @ + 1]
    /\ pw' = [pw EXCEPT ![w].pc = "updating"]
    /\ UNCHANGED <<toolVars, queryVars, batchVars, variant, credVars, mstack, procState, signals, interrupt_count,
                   shutdown_requested, tracker, nextItem, outcome, finalized, log,
                   ckpt, report, finalizeRuns>>

\* ProgressTracker.update, the rest: successful or failed, then the lock is
\* released. The agentic tracker calls add_failed_sample for a failure,
\* which takes self.lock again: the thread waits for itself.
WUpdateEnd(w) ==
    /\ Running
    /\ pw[w].pc = "updating"
    /\ counters' = IF Success(pw[w].res)
                   THEN [counters EXCEPT !.successful = @ + 1]
                   ELSE [counters EXCEPT !.failed = @ + 1]
    /\ IF variant = "agentic" /\ ~Success(pw[w].res)
       THEN pw' = [pw EXCEPT ![w].pc = "selfLocked"] /\ UNCHANGED trackerLock
       ELSE pw' = [pw EXCEPT ![w].pc = "append"] /\ trackerLock' = NoOne
    /\ UNCHANGED <<toolVars, queryVars, batchVars, variant, credVars, mstack, procState, signals, interrupt_count,
                   shutdown_requested, tracker, nextItem, outcome, finalized, log,
                   ckpt, report, finalizeRuns>>

\* append_result: the results file is opened for append (under self.lock
\* where the tracker takes it).
WAppendBegin(w) ==
    /\ Running
    /\ pw[w].pc = "append"
    /\ AppendLocks => trackerLock = NoOne
    /\ trackerLock' = IF AppendLocks THEN w ELSE trackerLock
    /\ pw' = [pw EXCEPT ![w].pc = "writing"]
    /\ UNCHANGED <<toolVars, queryVars, batchVars, variant, credVars, mstack, procState, signals, interrupt_count,
                   shutdown_requested, tracker, nextItem, outcome, counters, finalized,
                   log, ckpt, report, finalizeRuns>>

\* append_result: the record is written and the file closed; then
\* self.results_written is read for the += 1.
WAppendWrite(w) ==
    /\ Running
    /\ pw[w].pc = "writing"
    /\ log' = Append(log, pw[w].item)
    /\ pw' = [pw EXCEPT ![w].pc = "count", ![w].tmp = counters.results_written]
    /\ UNCHANGED <<toolVars, queryVars, batchVars, variant, credVars, mstack, procState, signals, interrupt_count,
                   shutdown_requested, tracker, nextItem, outcome, counters, trackerLock,
                   finalized, ckpt, report, finalizeRuns>>

\* append_result, the rest: results_written is stored, a checkpoint is saved
\* if checkpoint_interval seconds have passed since the last one (due), the
\* lock (if taken) is released and process_single_question returns.
WAppendEnd(w, due) ==
    /\ Running
    /\ pw[w].pc = "count"
    /\ counters' = [counters EXCEPT !.results_written = pw[w].tmp + 1]
    /\ ckpt' = IF due THEN Snapshot(0)' ELSE ckpt
    /\ trackerLock' = IF AppendLocks THEN NoOne ELSE trackerLock
    /\ outcome' = [outcome EXCEPT ![pw[w].item] = "recorded"]
    /\ pw' = [pw EXCEPT ![w] = PoolWorkerInit]
    /\ UNCHANGED <<toolVars, queryVars, batchVars, variant, credVars, mstack, procState, signals, interrupt_count,
                   shutdown_requested, tracker, nextItem, finalized, log, report,
                   finalizeRuns>>

\* An interrupt reaches the process: the interpreter runs signal_handler on
\* the main thread, on top of whatever the main thread was doing. This is
\* the handler up to its call of finalize_output. The runner has one stage
\* only. The unified and agentic handlers count the interrupts: from the
\* second on the agentic one calls os._exit(1) at once, the unified one
\* calls finalize_output first.
Signal ==
    /\ Running /\ signals < MaxSignals
    /\ signals' = signals + 1
    /\ interrupt_count' = IF variant = "runner" THEN interrupt_count ELSE interrupt_count + 1
    /\ IF variant # "runner" /\ interrupt_count + 1 >= 2
       THEN /\ UNCHANGED shutdown_requested
            /\ IF variant = "unified" /\ tracker
               THEN /\ mstack' = mstack \o <<Frame("handler", "kill", signals + 1),
                                            Frame("fin", "check", signals + 1)>>
                    /\ UNCHANGED procState
               ELSE /\ procState' = "killed"
                    /\ UNCHANGED mstack
       ELSE /\ shutdown_requested' = TRUE
            /\ mstack' = mstack \o <<Frame("handler", "return", signals + 1)>>
                                \o (IF tracker
                                    THEN <<Frame("fin", "check", signals + 1)>>
                                    ELSE <<>>)
            /\ UNCHANGED procState
    /\ UNCHANGED <<toolVars, queryVars, batchVars, variant, credVars, tracker, nextItem, outcome, pw, counters,
                   trackerLock, finalized, log, ckpt, report, finalizeRuns>>

\* signal_handler after finalize_output: os._exit(1) on the forced path,
\* otherwise the handler returns and the interrupted code goes on.
HReturn ==
    /\ Running /\ Top.who = "handler" /\ Top.at \in {"return", "kill"}
    /\ IF Top.at = "kill"
       THEN procState' = "killed" /\ UNCHANGED mstack
       ELSE mstack' = Pop /\ UNCHANGED procState
    /\ UNCHANGED <<toolVars, queryVars, batchVars, variant, credVars, signals, interrupt_count, shutdown_requested,
                   tracker, nextItem, outcome, pw, counters, trackerLock, finalized, log,
                   ckpt, report, finalizeRuns>>

\* finalize_output: if not self.output_file or self.finalized: return
FinCheck ==
    /\ Running /\ Top.who = "fin" /\ Top.at = "check"
    /\ mstack' = IF finalized THEN Pop ELSE At("set")
    /\ UNCHANGED <<toolVars, queryVars, batchVars, variant, credVars, procState, signals, interrupt_count,
                   shutdown_requested, tracker, nextItem, outcome, pw, counters,
                   trackerLock, finalized, log, ckpt, report, finalizeRuns>>

\* finalize_output: self.finalized = True
FinSet ==
    /\ Running /\ Top.who = "fin" /\ Top.at = "set"
    /\ finalized' = TRUE
    /\ mstack' = At(IF variant = "agentic" THEN "report" ELSE "checkpoint")
    /\ UNCHANGED <<toolVars, queryVars, batchVars, variant, credVars, procState, signals, interrupt_count,
                   shutdown_requested, tracker, nextItem, outcome, pw, counters,
                   trackerLock, log, ckpt, report, finalizeRuns>>

\* finalize_output: self._save_checkpoint() (runner, unified)
FinCheckpoint ==
    /\ Running /\ Top.who = "fin" /\ Top.at = "checkpoint"
    /\ ckpt' = Snapshot(Top.n)
    /\ mstack' = At("report")
    /\ UNCHANGED <<toolVars, queryVars, batchVars, variant, credVars, procState, signals, interrupt_count,
                   shutdown_requested, tracker, nextItem, outcome, pw, counters,
                   trackerLock, finalized, log, report, finalizeRuns>>

\* finalize_output: the results file is read back, final_data is built from
\* it and get_statistics(), the final report is written.
FinReport ==
    /\ Running /\ Top.who = "fin" /\ Top.at = "report"
    /\ report' = Consolidated(Top.n)
    /\ finalizeRuns' = finalizeRuns + 1
    /\ mstack' = Pop
    /\ UNCHANGED <<toolVars, queryVars, batchVars, variant, credVars, procState, signals, interrupt_count,
                   shutdown_requested, tracker, nextItem, outcome, pw, counters,
                   trackerLock, finalized, log, ckpt>>

\* ThreadPoolExecutor.__exit__ has waited for every task; main() calls
\* progress_tracker.finalize_output().
MJoin ==
    /\ Running /\ Top.who = "main" /\ Top.at = "pool"
    /\ nextItem > NumItems
    /\ \A w \in Workers : pw[w].pc = "idle"
    /\ mstack' = Append(At("atexit"), Frame("fin", "check", 0))
    /\ UNCHANGED <<toolVars, queryVars, batchVars, variant, credVars, procState, signals, interrupt_count,
                   shutdown_requested, tracker, nextItem, outcome, pw, counters,
                   trackerLock, finalized, log, ckpt, report, finalizeRuns>>

\* main() has returned; cleanup_on_exit, registered with atexit, calls
\* finalize_output unless shutdown_requested.
MAtexit ==
    /\ Running /\ Top.who = "main" /\ Top.at = "atexit"
    /\ mstack' = IF shutdown_requested
                 THEN At("end")
                 ELSE Append(At("end"), Frame("fin", "check", 0))
    /\ UNCHANGED <<toolVars, queryVars, batchVars, variant, credVars, procState, signals, interrupt_count,
                   shutdown_requested, tracker, nextItem, outcome, pw, counters,
                   trackerLock, finalized, log, ckpt, report, finalizeRuns>>

\* The interpreter exits.
MExit ==
    /\ Running /\ Top.who = "main" /\ Top.at = "end"
    /\ procState' = "exited"
    /\ UNCHANGED <<toolVars, queryVars, batchVars, variant, credVars, mstack, signals, interrupt_count,
                   shutdown_requested, tracker, nextItem, outcome, pw, counters,
                   trackerLock, finalized, log, ckpt, report, finalizeRuns>>


\* ------------------------------------------------------------- one query

\* What the search service can answer to one request: 200, no answer in
\* time, gateway timeout (504), not found (404).
Responses == {"200", "timeout", "504", "404"}

\* The result search() builds from the last response, as one of
\* SearchOutcomes.
OutcomeOf(r) == IF r = "200" THEN "ok" ELSE IF r = "timeout" THEN "timeout" ELSE "http"

\* pc: where the query stands; retry: retry_attempt of
\* process_single_question; attempt: attempt of search(); resps: the
\* responses received so far, one per request sent; delays: the time.sleep
\* calls made between requests, in tenths of a second.
QueryRest == [pc |-> "idle", retry |-> 0, attempt |-> 0, resps |-> <<>>, delays |-> <<>>]

\* No query under way.
QueryIdle == q = QueryRest

\* process_single_question is entered.
QueryInit == q = [QueryRest EXCEPT !.pc = "loop"]

\* Top of the retry loop of process_single_question. The runner and the
\* unified script sleep 0.1 * (2 ** retry_attempt) seconds before a retry;
\* then client.search(question, retry_count=1) is called and sends its
\* first request.
QLoop ==
    /\ q.pc = "loop"
    /\ q' = [q EXCEPT !.pc = "wait", !.attempt = 0,
                      !.delays = IF variant # "agentic" /\ q.retry > 0
                                 THEN Append(@, 2 ^ q.retry)
                                 ELSE @]
    /\ UNCHANGED <<toolVars, batchVars, variant, credVars, runVars>>

\* search(): the response r to the request in flight. 200 is returned as a
\* success. runner: every failure is returned at once. unified: a 504 with
\* an attempt left sleeps (2 ** attempt) * 0.5 seconds and sends again.
\* agentic: any status but 200 with an attempt left sleeps 1 second and
\* sends again, a timeout with an attempt left sends again at once.
QRespond(r) ==
    /\ q.pc = "wait"
    /\ r \in Responses
    /\ LET again == /\ q.attempt < RetryCount
                    /\ \/ variant = "unified" /\ r = "504"
                       \/ variant = "agentic" /\ r # "200"
           slept == IF r = "timeout" THEN q.delays
                    ELSE IF variant = "unified" THEN Append(q.delays, 5 * (2 ^ q.attempt))
                    ELSE Append(q.delays, 10)
       IN q' = IF again
               THEN [q EXCEPT !.resps = Append(@, r), !.attempt = @ + 1, !.delays = slept]
               ELSE [q EXCEPT !.resps = Append(@, r), !.pc = "returned"]
    /\ UNCHANGED <<toolVars, batchVars, variant, credVars, runVars>>

\* process_single_question after search() has returned: should_retry in the
\* runner and the unified script; in the agentic script any failure with a
\* retry left sleeps 1 second and goes round again.
QAfterSearch ==
    /\ q.pc = "returned"
    /\ LET o == OutcomeOf(q.resps[Len(q.resps)])
       IN q' = IF ShouldRetry(o, q.retry)
               THEN [q EXCEPT !.pc = "loop", !.retry = @ + 1,
                              !.delays = IF variant = "agentic" THEN Append(@, 10) ELSE @]
               ELSE [q EXCEPT !.pc = "done"]
    /\ UNCHANGED <<toolVars, batchVars, variant, credVars, runVars>>

\* ------------------------------------------------- the smart batch runner

\* The main thread as a holder of _token_lock.
MainThread == NumWorkers + 1

\* for i in range(0, len(remaining_questions), batch_size): the last question
\* of the batch that starts at remaining_questions[batchStart].
BatchEnd ==
    IF startIndex + batchStart + BatchSize < NumItems
    THEN startIndex + batchStart + BatchSize
    ELSE NumItems

NoCheckpoint == [exists |-> FALSE, completed_questions |-> 0]

\* save_checkpoint: completed_questions, start_time and checkpoint_time are
\* all the file holds.
SavedCheckpoint(n) == [exists |-> TRUE, completed_questions |-> n]

\* No batch run: the variables of process_all_questions at rest.
BatchIdle ==
    /\ bpc = "idle"
    /\ priorRun = [completed |-> 0, successful |-> 0, failed |-> 0]
    /\ ckptFile = NoCheckpoint
    /\ startIndex = 0 /\ batchStart = 0

\* process_all_questions is entered. An earlier run may have stopped after
\* priorRun.completed questions and left its checkpoint on disk. This run
\* names its checkpoint checkpoint_<timestamp>.json with the time of its own
\* start: the file of that name exists only if the earlier run started in
\* the same second.
BatchInit ==
    /\ bpc = "load"
    /\ priorRun \in {[completed |-> c, successful |-> s, failed |-> c - s] :
                        c \in 0..NumItems, s \in 0..NumItems} 
    /\ priorRun.failed >= 0
    /\ ckptFile \in {NoCheckpoint, SavedCheckpoint(priorRun.completed)}
    /\ ckptFile.exists => priorRun.completed > 0
    /\ startIndex = 0 /\ batchStart = 0

\* checkpoint = self.load_checkpoint(checkpoint_file);
\* start_index = checkpoint["completed_questions"]
BLoad ==
    /\ bpc = "load"
    /\ startIndex' = IF ckptFile.exists THEN ckptFile.completed_questions ELSE 0
    /\ bpc' = "init"
    /\ UNCHANGED <<toolVars, queryVars, variant, credVars, runVars, priorRun, ckptFile, batchStart>>

\* process_all_questions as it would be if it handed every question, not
\* questions[start_index:], to the batches after restoring the counter.
BInitTracker_AllQuestions ==
    /\ bpc = "init"
    /\ counters' = [completed |-> startIndex, successful |-> 0, failed |-> 0,
                    results_written |-> 0]
    /\ nextItem' = 1
    /\ bpc' = "batch"
    /\ startIndex' = 0
    /\ UNCHANGED <<toolVars, queryVars, variant, credVars, mstack, procState, signals,
                   interrupt_count, shutdown_requested, tracker, outcome, pw,
                   trackerLock, finalized, log, ckpt, report, finalizeRuns,
                   priorRun, ckptFile, batchStart>>

\* progress_tracker = ProgressTracker(total_questions, output_file);
\* progress_tracker.completed = start_index;
\* remaining_questions = questions[start_index:]
BInitTracker ==
    /\ bpc = "init"
    /\ counters' = [completed |-> startIndex, successful |-> 0, failed |-> 0,
                    results_written |-> 0]
    /\ nextItem' = startIndex + 1
    /\ bpc' = IF startIndex < NumItems THEN "batch" ELSE "finalize"
    /\ UNCHANGED <<toolVars, queryVars, variant, credVars, mstack, procState, signals,
                   interrupt_count, shutdown_requested, tracker, outcome, pw,
                   trackerLock, finalized, log, ckpt, report, finalizeRuns,
                   priorRun, ckptFile, startIndex, batchStart>>

\* process_batch as it would be if the credential check came back False for
\* a credential in need of refresh: the batch is skipped, and
\* process_all_questions leaves its loop for the final save.
BBatchCheck_ReturnsFalse ==
    /\ bpc = "batch" /\ tokenLock = NoOne
    /\ checkDue' = FALSE
    /\ bpc' = IF checkDue /\ ~TokenValid(token) THEN "finalize" ELSE "pool"
    /\ UNCHANGED <<toolVars, queryVars, variant, runVars, token, headersAuth, tokenFile,
                   cacheToken, tok0, tokenLock, netRefreshCalls, failedRefreshes,
                   lastRefreshed, cw, priorRun, ckptFile, startIndex, batchStart>>

\* process_batch: if not self.client._check_and_refresh_token_if_needed().
\* Inside the interval the check returns True. Past it the lock is taken; a
\* valid credential returns True, any other goes to refresh_token_if_needed
\* and on to _reload_token_from_file, which takes _token_lock again: the
\* main thread waits for itself, and the "return False" of process_batch
\* with the break of process_all_questions is never reached.
BBatchCheck ==
    /\ bpc = "batch" /\ tokenLock = NoOne
    /\ checkDue' = FALSE
    /\ IF checkDue /\ ~TokenValid(token)
       THEN bpc' = "selfLocked" /\ tokenLock' = MainThread
       ELSE bpc' = "pool" /\ UNCHANGED tokenLock
    /\ UNCHANGED <<toolVars, queryVars, variant, runVars, token, headersAuth, tokenFile,
                   cacheToken, tok0, netRefreshCalls, failedRefreshes,
                   lastRefreshed, cw, priorRun, ckptFile, startIndex, batchStart>>

\* process_batch: a thread of the batch's ThreadPoolExecutor starts
\* process_single_question on the next question of the batch.
BTake(w) ==
    /\ bpc = "pool"
    /\ pw[w].pc = "idle" /\ nextItem <= BatchEnd
    /\ nextItem' = nextItem + 1
    /\ outcome' = [outcome EXCEPT ![nextItem] = "running"]
    /\ pw' = [pw EXCEPT ![w] = [PoolWorkerInit EXCEPT !.pc = "loop", !.item = nextItem]]
    /\ UNCHANGED <<toolVars, queryVars, batchVars, variant, credVars, mstack, procState, signals,
                   interrupt_count, shutdown_requested, tracker, counters, trackerLock,
                   finalized, log, ckpt, report, finalizeRuns>>

\* process_batch returns True once every future of the batch is done;
\* process_all_questions saves a checkpoint of current_index + len(batch) if
\* checkpoint_interval seconds have passed (due) and goes to the next batch,
\* or leaves the loop.
BBatchDone(due) ==
    /\ bpc = "pool"
    /\ nextItem > BatchEnd
    /\ \A w \in Workers : pw[w].pc = "idle"
    /\ ckptFile' = IF due THEN SavedCheckpoint(BatchEnd) ELSE ckptFile
    /\ batchStart' = batchStart + BatchSize
    /\ bpc' = IF BatchEnd < NumItems THEN "batch" ELSE "finalize"
    /\ UNCHANGED <<toolVars, queryVars, variant, credVars, runVars, priorRun, startIndex>>

\* After the loop: progress_tracker.finalize_output()
BFinalize ==
    /\ bpc = "finalize"
    /\ mstack' = Append(mstack, Frame("fin", "check", 0))
    /\ bpc' = "save"
    /\ UNCHANGED <<toolVars, queryVars, variant, credVars, procState, signals, interrupt_count,
                   shutdown_requested, tracker, nextItem, outcome, pw, counters,
                   trackerLock, finalized, log, ckpt, report, finalizeRuns,
                   priorRun, ckptFile, startIndex, batchStart>>

\* finalize_output has returned:
\* self.save_checkpoint(checkpoint_file, total_questions, start_time)
BSave ==
    /\ bpc = "save" /\ Top.who = "main"
    /\ ckptFile' = SavedCheckpoint(NumItems)
    /\ bpc' = "done"
    /\ UNCHANGED <<toolVars, queryVars, variant, credVars, runVars, priorRun, startIndex, batchStart>>

\* ------------------------------------------------ the stored credential

\* What a writer stores for credential g and renewal secret r.
\* unified, _save_token_cache: json.dump of access_token, refresh_token and
\* expires_at into token_config.json. runner, _save_token: the access token
\* into the token file. silent, save_refresh_token: the renewal secret into
\* the refresh token file.
Record(g, r) ==
    IF variant = "unified" THEN <<g, r, g>>
    ELSE IF variant = "runner" THEN <<g>>
    ELSE <<r>>

StoreInit == store = StoreRest(Record(0, 0))

\* A new credential has been obtained, with a rotated renewal secret or
\* with the one in use (rotated), and the writer is called.
SBegin(rotated) ==
    /\ store.pc = "idle" /\ ~store.crashed /\ store.saves < MaxSaves
    /\ LET g == store.saves + 1
           r == IF rotated THEN g
                ELSE IF variant = "unified" THEN store.old[2]
                ELSE IF variant = "silent" THEN store.old[1]
                ELSE 0
       IN store' = [store EXCEPT !.pc = "open", !.new = Record(g, r)]
    /\ UNCHANGED <<variant, credVars, runVars, batchVars, queryVars, tm, proc, ev>>

\* open(file, 'w'): the file under its own name is cut to nothing.
SOpen ==
    /\ store.pc = "open" /\ ~store.crashed
    /\ store' = [store EXCEPT !.pc = "write", !.file = <<>>]
    /\ UNCHANGED <<variant, credVars, runVars, batchVars, queryVars, tm, proc, ev>>

\* json.dump / f.write: the next part of the record reaches the file; after
\* the last one the file is closed. The unified writer goes on to the
\* legacy token file.
SWrite ==
    /\ store.pc = "write" /\ ~store.crashed
    /\ LET k == Len(store.file) + 1
           last == k = Len(store.new)
       IN store' = [store EXCEPT
                       !.file = Append(@, store.new[k]),
                       !.pc = IF ~last THEN "write"
                              ELSE IF variant = "unified" THEN "legacy" ELSE "idle",
                       !.old = IF last THEN store.new ELSE @,
                       !.saves = IF last /\ variant # "unified" THEN @ + 1 ELSE @]
    /\ UNCHANGED <<variant, credVars, runVars, batchVars, queryVars, tm, proc, ev>>

\* unified: open(self.legacy_token_file, 'w')
SLegacyOpen ==
    /\ store.pc = "legacy" /\ ~store.crashed
    /\ store' = [store EXCEPT !.pc = "legacyWrite", !.legacy = <<>>]
    /\ UNCHANGED <<variant, credVars, runVars, batchVars, queryVars, tm, proc, ev>>

\* unified: f.write(self._token_cache["access_token"]) and the close.
SLegacyWrite ==
    /\ store.pc = "legacyWrite" /\ ~store.crashed
    /\ store' = [store EXCEPT !.pc = "idle", !.legacy = <<store.new[1]>>,
                              !.saves = @ + 1]
    /\ UNCHANGED <<variant, credVars, runVars, batchVars, queryVars, tm, proc, ev>>

\* The process dies (kill, power loss): what the files hold stays as it is.
SCrash ==
    /\ ~store.crashed
    /\ store' = [store EXCEPT !.crashed = TRUE]
    /\ UNCHANGED <<variant, credVars, runVars, batchVars, queryVars, tm, proc, ev>>

\* ------------------------------------------------------ the token manager

\* get_valid_access_token is called on some state of the cache.
TokenInit ==
    \E c \in {"none", "fresh", "buffer", "expired"}, r \in BOOLEAN :
        tm = [TokenRest EXCEPT !.pc = "call", !.cache = c, !.cache0 = c,
                               !.refresh = r, !.refresh0 = r]

\* The caller gets its result.
TokenResult(method, ok) == [tm EXCEPT !.pc = "done", !.method = method, !.success = ok]

\* get_valid_access_token as it would be if it went to the device code
\* flow without trying the cached refresh token.
TGetValid_DeviceFirst ==
    /\ Running
    /\ tm.pc = "call"
    /\ tm' = IF tm.cache = "fresh" THEN TokenResult("cached", TRUE)
             ELSE [tm EXCEPT !.pc = "device"]
    /\ UNCHANGED <<variant, credVars, runVars, batchVars, queryVars, store, proc, ev>>

\* get_valid_access_token: if self._is_access_token_valid(): return the
\* cached token; else, with a refresh token in the cache,
\* _refresh_with_stored_token; else the device code flow.
TGetValid ==
    /\ Running
    /\ tm.pc = "call"
    /\ tm' = IF tm.cache = "fresh" THEN TokenResult("cached", TRUE)
             ELSE IF tm.refresh THEN [tm EXCEPT !.pc = "refresh"]
             ELSE [tm EXCEPT !.pc = "device"]
    /\ UNCHANGED <<variant, credVars, runVars, batchVars, queryVars, store, proc, ev>>

\* _refresh_with_stored_token: the POST to the token endpoint and its
\* answer. Success stores the new token and returns it; 401 clears the
\* refresh token; every failure leads to the device code flow.
TRefresh(answer) ==
    /\ Running
    /\ tm.pc = "refresh"
    /\ answer \in {"ok", "401", "error"}
    /\ LET called == [tm EXCEPT !.net = Append(@, <<"refresh", answer>>)]
       IN tm' = IF answer = "ok"
                THEN [called EXCEPT !.pc = "done", !.method = "refresh_token",
                                    !.success = TRUE, !.cache = "fresh"]
                ELSE [called EXCEPT !.pc = "device",
                                    !.refresh = IF answer = "401" THEN FALSE ELSE @]
    /\ UNCHANGED <<variant, credVars, runVars, batchVars, queryVars, store, proc, ev>>

\* _acquire_token_device_code: the POST to the device code endpoint. An
\* error ends the flow; otherwise the polling starts.
TDeviceStart(ok) ==
    /\ Running
    /\ tm.pc = "device"
    /\ LET called == [tm EXCEPT !.net = Append(@, <<"device", IF ok THEN "ok" ELSE "error">>)]
       IN tm' = IF ok
                THEN [called EXCEPT !.pc = "poll"]
                ELSE [called EXCEPT !.pc = "done", !.method = "device_code"]
    /\ UNCHANGED <<variant, credVars, runVars, batchVars, queryVars, store, proc, ev>>

\* One pass of the polling loop while time.time() - start_time < expires_in:
\* 200 stores the token and returns it; authorization_pending and a failed
\* request sleep for the interval and poll again; any other answer ends the
\* flow as a failure.
TPoll(answer) ==
    /\ Running /\ ~shutdown_requested
    /\ tm.pc = "poll" /\ tm.polls < MaxPolls
    /\ answer \in {"200", "pending", "neterror", "denied"}
    /\ LET called == [tm EXCEPT !.net = Append(@, <<"poll", answer>>), !.polls = @ + 1]
       IN tm' = IF answer = "200"
                THEN [called EXCEPT !.pc = "done", !.method = "device_code",
                                    !.success = TRUE, !.cache = "fresh"]
                ELSE IF answer = "denied"
                THEN [called EXCEPT !.pc = "done", !.method = "device_code"]
                ELSE called
    /\ UNCHANGED <<variant, credVars, runVars, batchVars, queryVars, store, proc, ev>>

\* Top of the polling loop with shutdown_requested set (force_exit is set
\* together with os._exit): "Authentication interrupted by user".
TInterrupted ==
    /\ Running /\ shutdown_requested
    /\ tm.pc = "poll" /\ tm.polls < MaxPolls
    /\ tm' = [tm EXCEPT !.pc = "done", !.method = "device_code_interrupted"]
    /\ UNCHANGED <<variant, credVars, runVars, batchVars, queryVars, store, proc, ev>>

\* The loop condition is false: expires_in seconds have passed.
\* "Device code authentication timed out".
TTimeout ==
    /\ Running
    /\ tm.pc = "poll" /\ tm.polls = MaxPolls
    /\ tm' = [tm EXCEPT !.pc = "done", !.method = "device_code_timeout"]
    /\ UNCHANGED <<variant, credVars, runVars, batchVars, queryVars, store, proc, ev>>

\* ------------------------------------------------ start and exit codes

ExitInit == proc = [ProcRest EXCEPT !.pc = "setup"]

\* The process ends with this exit code.
Exited(code) == [proc EXCEPT !.pc = "exited", !.code = code]

\* The client is built. unified: DataverseSearchClient.__init__ raises if
\* get_valid_access_token fails, main() lets the exception through and the
\* __main__ block ends with sys.exit(1). runner: _load_token raises if the
\* token file cannot be read and main() is left with the exception, which
\* ends the interpreter with code 1. unstructured: _read_token calls
\* sys.exit(1) if token.config cannot be read.
PSetup(usable) ==
    /\ proc.pc = "setup"
    /\ proc' = IF usable THEN [proc EXCEPT !.pc = "run", !.setupOk = TRUE]
               ELSE Exited(1)
    /\ UNCHANGED <<variant, credVars, runVars, batchVars, queryVars, store, tm, ev>>

\* A pool thread takes query i and completes it. After an interrupt
\* process_single_question of the runner and the unified script returns at
\* its entry; the unstructured pool still runs every submitted query while
\* the with-block is left.
PQuery(i, ok) ==
    /\ proc.pc \in {"run", "drain"}
    /\ proc.items[i] = "queued"
    /\ proc' = [proc EXCEPT !.items[i] =
                   IF variant # "unstructured" /\ proc.pc = "drain" THEN "skipped"
                   ELSE IF ok THEN "ok" ELSE "failed"]
    /\ UNCHANGED <<variant, credVars, runVars, batchVars, queryVars, store, tm, ev>>

\* Ctrl+C. unified: signal_handler; the first sets shutdown_requested and
\* calls finalize_output, the second calls finalize_output and os._exit(1).
\* runner: signal_handler sets shutdown_requested and calls finalize_output
\* every time.
\* unstructured: KeyboardInterrupt is raised in run_batch_search, and the
\* ThreadPoolExecutor waits for its tasks before it leaves the with-block.
PInterrupt ==
    /\ proc.pc \in {"run", "drain"}
    /\ proc.interrupts < MaxSignals
    /\ proc' = IF variant = "unified"
               THEN IF proc.interrupts = 0
                    THEN [proc EXCEPT !.pc = "drain", !.interrupts = 1, !.saved = TRUE]
                    ELSE [Exited(1) EXCEPT !.interrupts = @ + 1, !.saved = TRUE]
               ELSE [proc EXCEPT !.pc = "drain", !.interrupts = @ + 1,
                                 !.saved = IF variant = "runner" THEN TRUE ELSE @]
    /\ UNCHANGED <<variant, credVars, runVars, batchVars, queryVars, store, tm, ev>>

\* Every task is over. runner, unified: main() finalizes and returns, the
\* process ends with code 0. unstructured: after a complete run save_results and a
\* normal return; in the KeyboardInterrupt handler of main() the partial
\* results are saved if there are any, then sys.exit(1).
PFinish ==
    /\ proc.pc \in {"run", "drain"}
    /\ \A i \in Items : proc.items[i] # "queued"
    /\ proc' = IF variant # "unstructured" \/ proc.pc = "run"
               THEN [Exited(0) EXCEPT !.saved = TRUE]
               ELSE [Exited(1) EXCEPT !.saved = \E i \in Items : proc.items[i] # "queued"]
    /\ UNCHANGED <<variant, credVars, runVars, batchVars, queryVars, store, tm, ev>>

\* ------------------------------------------------------- relevance scoring
\* score_result_relevance of the unified and the simplified scorer and
\* _score_single_result of SearchEvaluator. The texts of the intent and of
\* the candidate are kept as the quantities the scorers derive from them:
\*   qtype    question_type of the intent
\*   fields   the candidate's fields: "ok", "missing" (no name, description,
\*            category or price), "nonnumeric" (Price is not a number),
\*            "null" (a field holds None)
\*   direct   expected category = category of the candidate
\*   kw       keywords of the expected category found in the candidate's text;
\*            for SearchEvaluator 2 = the expected category is contained in
\*            the candidate's category, 1 = the two are related categories
\*   strong   one of the keywords found is the category's own name or a
\*            long one
\*   nameCov  tenths of the product name found in the candidate's name
\*            (10 = the name is contained whole)
\*   wordCov  tenths of the question's words found in the candidate's text
\*            (10 = the product name is contained in the description)
\*   attrs    attributes to look for
\*   hits2    twice the attributes matched (a match by name or by keyword
\*            counts one half in the unified scorer)
\*   priced   the intent carries a price
\*   dev      distance of the candidate's price from it, in percent
\*   rich     the candidate's text is longer than 50 characters
MaxKeywords == 2       \* keywords of one category that a candidate matches
MaxAttributes == 1     \* attributes one intent carries

Candidates ==
    {c \in [qtype : {"Exact word", "Category", "Category + Attribute value",
                     "Attribute value", "Category + Price range",
                     "Price range", "Description", "Other"},
            fields : {"ok", "missing", "nonnumeric", "null"},
            direct : BOOLEAN, kw : 0..MaxKeywords, strong : BOOLEAN,
            nameCov : {0, 2, 5, 8, 10}, wordCov : {0, 2, 5, 8, 10},
            attrs : 0..MaxAttributes, hits2 : 0..(2 * MaxAttributes + 1),
            priced : BOOLEAN, dev : {10, 30, 50, 100}, rich : BOOLEAN] :
        /\ c.direct => c.kw >= 1
        /\ c.strong => c.kw >= 1
        /\ c.hits2 <= 2 * c.attrs + 1
        /\ ~c.priced => c.dev = 100
        /\ c.fields = "missing" =>
               ~c.direct /\ c.kw = 0 /\ c.nameCov = 0 /\ c.wordCov = 0 /\ ~c.rich}

\* A call returns <<label>>, or <<>> when it raised.

Min(a, b) == IF a <= b THEN a ELSE b
Max(a, b) == IF a >= b THEN a ELSE b

\* ---- unified_relevance_scorer.py
_score_exact_word(c) ==
    IF c.nameCov >= 7 THEN 3
    ELSE IF c.nameCov >= 3 /\ c.wordCov >= 3 THEN 2
    ELSE IF c.wordCov >= 3 THEN 1
    ELSE 0

_score_category(c) ==
    IF c.direct THEN 3
    ELSE IF c.strong /\ c.kw >= 2 THEN 2
    ELSE IF c.kw >= 1 THEN 1
    ELSE 0

\* category_match of _score_category_attribute and _score_category_price
category_match(c) == c.direct \/ c.kw >= 1

\* attr_match_ratio is kept in twentieths of the attributes expected
_score_category_attribute(c) ==
    LET AtLeast(tenths) ==
            IF c.attrs > 0 THEN 10 * c.hits2 >= tenths * 2 * c.attrs
            ELSE (IF c.hits2 > 0 THEN 10 ELSE 0) >= tenths
    IN  IF category_match(c) /\ AtLeast(8) THEN 3
        ELSE IF category_match(c) /\ AtLeast(3) THEN 2
        ELSE IF AtLeast(3) THEN 1
        ELSE 0

_score_category_price(c) ==
    LET price_in_range == c.priced /\ c.dev <= 20
        price_match == c.priced /\ c.dev > 20 /\ c.dev <= 50
    IN  IF category_match(c) /\ price_in_range THEN 3
        ELSE IF price_in_range \/ (category_match(c) /\ price_match) THEN 2
        ELSE IF category_match(c) THEN 1
        ELSE 0

\* total_score in thousandths
_score_description(c) ==
    LET name_score == c.nameCov
        category_score == Min((10 * c.kw) \div MaxKeywords, 10)
        description_score == Min(c.wordCov, 10)
        rich_total == description_score * 80 + name_score * 15 + category_score * 5
        basic_total == name_score * 70 + category_score * 30
    IN  IF c.rich
        THEN IF rich_total >= 550 THEN 3
             ELSE IF rich_total >= 350 THEN 2
             ELSE IF rich_total >= 150 THEN 1
             ELSE 0
        ELSE IF basic_total >= 600 THEN 3
             ELSE IF basic_total >= 400 THEN 2
             ELSE IF basic_total >= 200 THEN 1
             ELSE 0

_score_general_relevance(c) ==
    LET name_score == IF c.nameCov >= 5 THEN 1 ELSE 0
        category_score == IF c.direct THEN 1 ELSE 0
    IN  IF name_score > 0 /\ category_score > 0 THEN 2
        ELSE IF name_score > 0 \/ category_score > 0 THEN 1
        ELSE 0

\* score_result_relevance: a None field makes .lower() raise inside the try
\* block and the except branch returns 0; a Price that is not a number is
\* skipped by _extract_price_from_result.
UnifiedScore(c) ==
    IF c.fields = "null" THEN <<0>>
    ELSE CASE c.qtype = "Exact word" -> <<_score_exact_word(c)>>
           [] c.qtype = "Category" -> <<_score_category(c)>>
           [] c.qtype \in {"Category + Attribute value", "Attribute value"} ->
                 <<_score_category_attribute(c)>>
           [] c.qtype \in {"Category + Price range", "Price range"} ->
                 <<_score_category_price(c)>>
           [] c.qtype = "Description" -> <<_score_description(c)>>
           [] OTHER -> <<_score_general_relevance(c)>>

\* ---- simplified_relevance_scorer.py
_score_exact_word_simplified(c) ==
    IF c.nameCov >= 7 THEN 3
    ELSE IF c.nameCov >= 3 THEN 2
    ELSE IF c.nameCov > 0 THEN 1
    ELSE 0

_score_category_simplified(c) ==
    IF c.direct THEN 3
    ELSE IF c.strong \/ c.kw >= 2 THEN 3
    ELSE IF c.kw >= 1 THEN 2
    ELSE 0

_score_category_attribute_simplified(c) ==
    LET category_score == _score_category_simplified(c)
        attribute_matches == c.hits2 \div 2
    IN  IF category_score = 0 THEN 0
        ELSE IF c.attrs = 0 THEN category_score
        ELSE IF category_score >= 3 /\ 10 * attribute_matches >= 8 * c.attrs THEN 3
        ELSE IF category_score >= 3 /\ attribute_matches > 0 THEN 2
        ELSE Min(category_score, 2)

_score_category_price_simplified(c) ==
    LET category_score == _score_category_simplified(c)
        price_in_range == c.priced /\ c.dev <= 20
    IN  IF category_score = 0 THEN 0
        ELSE IF ~c.priced THEN category_score
        ELSE IF category_score >= 3 /\ price_in_range THEN 3
        ELSE IF category_score >= 3 THEN 2
        ELSE IF price_in_range THEN 2
        ELSE Min(category_score, 1)

_score_description_simplified(c) ==
    IF c.wordCov >= 6 THEN 3
    ELSE IF c.wordCov >= 3 THEN 2
    ELSE IF c.wordCov >= 1 THEN 1
    ELSE 0

\* _score_general_relevance of the simplified scorer
SimplifiedGeneral(c) ==
    LET name_score == IF c.nameCov >= 5 THEN 2 ELSE IF c.nameCov > 0 THEN 1 ELSE 0
        category_score == IF c.direct THEN 2 ELSE IF c.kw >= 1 THEN 1 ELSE 0
    IN  Min(3, name_score + category_score)

SimplifiedScore(c) ==
    IF c.fields = "null" THEN <<0>>
    ELSE CASE c.qtype = "Exact word" -> <<_score_exact_word_simplified(c)>>
           [] c.qtype = "Category" -> <<_score_category_simplified(c)>>
           [] c.qtype \in {"Category + Attribute value", "Attribute value"} ->
                 <<_score_category_attribute_simplified(c)>>
           [] c.qtype \in {"Category + Price range", "Price range"} ->
                 <<_score_category_price_simplified(c)>>
           [] c.qtype = "Description" -> <<_score_description_simplified(c)>>
           [] OTHER -> <<SimplifiedGeneral(c)>>

\* ---- search_evaluator.py
\* no try block: .lower() on a None field and float() of a Price that is not
\* a number raise out of _score_single_result. Otherwise the score of the
\* branch of question_type, then the category boost and the cap.
_score_single_result(c) ==
    LET branch ==
            CASE c.qtype = "Exact word" ->
                    IF c.nameCov > 7 THEN 3 ELSE IF c.nameCov > 4 THEN 2 ELSE 0
              [] c.qtype = "Price range" ->
                    IF ~c.priced THEN 0
                    ELSE IF c.dev <= 10 THEN 3
                    ELSE IF c.dev <= 30 THEN 2
                    ELSE IF c.dev <= 50 THEN 1
                    ELSE 0
              [] c.qtype = "Category" ->
                    IF c.direct THEN 3
                    ELSE IF c.kw >= 2 THEN 2
                    ELSE IF c.kw = 1 THEN 1
                    ELSE 0
              [] c.qtype = "Attribute value" ->
                    IF c.hits2 \div 2 >= c.attrs THEN 3
                    ELSE IF c.hits2 \div 2 > 0 THEN 2
                    ELSE 0
              [] c.qtype = "Description" ->
                    IF c.wordCov = 10 THEN 3
                    ELSE IF c.wordCov > 3 THEN 2
                    ELSE IF c.kw >= 2 THEN 1
                    ELSE 0
              [] OTHER -> 0
        boosted ==
            IF branch < 3 /\ c.direct THEN Max(branch, 2)
            ELSE IF branch < 2 /\ c.kw >= 2 THEN Max(branch, 1)
            ELSE branch
    IN  IF c.fields \in {"null", "nonnumeric"} THEN <<>>
        ELSE IF c.nameCov = 10 THEN <<3>>
        ELSE <<Min(boosted, 3)>>

\* ---- one scoring call
ScoreInit == \E c \in Candidates : ev = [pc |-> "asked", c |-> c, out |-> <<>>]

\* the call returns a label or raises
ScoreCall ==
    /\ ev.pc = "asked"
    /\ ev' = [ev EXCEPT
                 !.pc = "scored",
                 !.out = CASE variant = "unified_scorer" -> UnifiedScore(ev.c)
                           [] variant = "simplified_scorer" -> SimplifiedScore(ev.c)
                           [] OTHER -> _score_single_result(ev.c)]
    /\ UNCHANGED <<variant, credVars, runVars, batchVars, queryVars, store, tm, proc>>

\* ------------------------------------------------------- ranking metrics
\* Average Precision and Recall@K of analyze_search_results.py,
\* analyze_agentic_search_results.py and search_evaluator.py over the labels
\* r[1..n] of one query's results, in rank order. A metric is kept as the
\* exact fraction <<numerator, denominator>>; <<>> is a query that the
\* function leaves out and a zero denominator is a ZeroDivisionError.
\* analyze_jsonl.py has no labels: it compares the names of the results with
\* the relevant_items of its ground truth; there r[i] >= 2 stands for a
\* result whose name is among them and missed counts the relevant items that
\* are not among the results.
MaxLen == 5            \* results judged for one query
MaxMissed == 1         \* relevant items of the ground truth not among the results

Judgments == UNION {[1..n -> 0..3] : n \in 0..MaxLen}

\* the test that makes a result relevant. analyze_search_results.py first
\* turns the label into raw_score / 3.0 and then compares it with 0.67
IsRelevant(script, label) ==
    IF script = "analyze_search_results"
    THEN (IF label > 0 THEN 100 * label ELSE 0) >= 67 * 3
    ELSE label >= 2

RECURSIVE Factorial(_)
Factorial(n) == IF n <= 1 THEN 1 ELSE n * Factorial(n - 1)

\* the loop of _calculate_average_precision from position i on, with
\* relevant_count and precision_sum (in units of 1 / Factorial(Len(r)))
RECURSIVE PrecisionLoop(_, _, _, _, _)
PrecisionLoop(script, r, i, relevant_count, precision_sum) ==
    IF i > Len(r) THEN precision_sum
    ELSE IF IsRelevant(script, r[i])
    THEN PrecisionLoop(script, r, i + 1, relevant_count + 1,
                       precision_sum
                           + (relevant_count + 1) * (Factorial(Len(r)) \div i))
    ELSE PrecisionLoop(script, r, i + 1, relevant_count, precision_sum)

_calculate_average_precision(script, r) ==
    LET total_relevant ==
            Cardinality({i \in 1..Len(r) : IsRelevant(script, r[i])})
    IN  IF Len(r) = 0
        THEN (IF script = "search_evaluator" THEN <<>> ELSE <<0, 1>>)
        ELSE IF total_relevant = 0 THEN <<0, 1>>
        ELSE <<PrecisionLoop(script, r, 1, 0, 0),
               total_relevant * Factorial(Len(r))>>

\* the recall of _calculate_precision_recall_f1
_calculate_precision_recall_f1(script, r, k) ==
    LET relevant_in_k ==
            Cardinality({i \in 1..Min(k, Len(r)) : IsRelevant(script, r[i])})
        total_relevant ==
            Cardinality({i \in 1..Len(r) : IsRelevant(script, r[i])})
    IN  IF Len(r) = 0 THEN <<0, 1>>
        ELSE IF total_relevant > 0 THEN <<relevant_in_k, Max(1, total_relevant)>>
        ELSE <<0, 1>>

\* SearchEvaluator.calculate_recall_at_k for one evaluation
calculate_recall_at_k(r, k) ==
    LET highly_relevant_found ==
            Cardinality({i \in 1..Min(k, Len(r)) : r[i] >= 3})
    IN  IF Len(r) = 0 THEN <<>> ELSE <<Min(1, highly_relevant_found), 1>>

\* the sum of score / log2(i + 1) over the positions i..Len(scores), in
\* thousandths: 1 / log2(i + 1) is 1, 0.631, 0.5, 0.431, 0.387, 0.356, ...
RECURSIVE Dcg(_, _)
Dcg(scores, i) ==
    IF i > Len(scores) THEN 0
    ELSE scores[i] * (CASE i = 1 -> 1000 [] i = 2 -> 631 [] i = 3 -> 500
                        [] i = 4 -> 431 [] i = 5 -> 387 [] i = 6 -> 356
                        [] i = 7 -> 333 [] OTHER -> 315)
         + Dcg(scores, i + 1)

\* the ideal ranking keeps the whole of sorted(relevance_scores) where the
\* code cuts it to its first k
_calculate_ndcg_at_k_IdealUncut(script, r, k) ==
    LET sorted == [j \in 1..Len(r) |->
                      CHOOSE l \in 0..3 :
                          /\ Cardinality({i \in 1..Len(r) : r[i] >= l}) >= j
                          /\ \A m \in (l + 1)..3 :
                                 Cardinality({i \in 1..Len(r) : r[i] >= m}) < j]
        dcg == Dcg(SubSeq(r, 1, Min(k, Len(r))), 1)
        idcg == Dcg(sorted, 1)
    IN  IF Len(r) = 0 THEN (IF script = "search_evaluator" THEN <<>> ELSE <<0, 1>>)
        ELSE IF idcg > 0 THEN <<dcg, idcg>> ELSE <<0, 1>>

\* _calculate_ndcg_at_k of the two analyzers sorts the whole list and cuts
\* it to k; SearchEvaluator.calculate_ndcg cuts the list to k and sorts that
_calculate_ndcg_at_k(script, r, k) ==
    LET top == SubSeq(r, 1, Min(k, Len(r)))
        from == IF script = "search_evaluator" THEN top ELSE r
        sorted == [j \in 1..Len(from) |->
                      CHOOSE l \in 0..3 :
                          /\ Cardinality({i \in 1..Len(from) : from[i] >= l}) >= j
                          /\ \A m \in (l + 1)..3 :
                                 Cardinality({i \in 1..Len(from) : from[i] >= m}) < j]
        dcg == Dcg(top, 1)
        idcg == Dcg(SubSeq(sorted, 1, Min(k, Len(sorted))), 1)
    IN  IF Len(r) = 0 THEN (IF script = "search_evaluator" THEN <<>> ELSE <<0, 1>>)
        ELSE IF idcg > 0 THEN <<dcg, idcg>> ELSE <<0, 1>>

\* Precision@K of one query: _calculate_precision_recall_f1 of the two
\* analyzers, calculate_precision_at_k of SearchEvaluator and
\* _calculate_precision_at_k of analyze_jsonl.py
PrecisionOf(script, r, k) ==
    LET relevant_in_k ==
            Cardinality({i \in 1..Min(k, Len(r)) : IsRelevant(script, r[i])})
    IN  IF Len(r) = 0
        THEN (IF script = "search_evaluator" THEN <<>> ELSE <<0, 1>>)
        ELSE IF script = "analyze_jsonl" THEN <<relevant_in_k, Min(k, Len(r))>>
        ELSE IF Min(k, Len(r)) > 0 THEN <<relevant_in_k, Min(k, Len(r))>>
        ELSE <<0, 1>>

\* the division is made whatever relevant_items holds
_calculate_recall_at_k_Unguarded(r, missed, k) ==
    LET relevant_items ==
            Cardinality({i \in 1..Len(r) : r[i] >= 2}) + missed
        relevant_retrieved ==
            Cardinality({i \in 1..Min(k, Len(r)) : r[i] >= 2})
    IN  <<relevant_retrieved, relevant_items>>

\* _calculate_recall_at_k of analyze_jsonl.py
_calculate_recall_at_k(r, missed, k) ==
    LET relevant_items ==
            Cardinality({i \in 1..Len(r) : r[i] >= 2}) + missed
        relevant_retrieved ==
            Cardinality({i \in 1..Min(k, Len(r)) : r[i] >= 2})
    IN  IF relevant_items = 0
        THEN (IF Len(r) = 0 THEN <<1, 1>> ELSE <<0, 1>>)
        ELSE IF Len(r) = 0 THEN <<0, 1>>
        ELSE <<relevant_retrieved, relevant_items>>

MetricInit ==
    \E r \in Judgments : \E k \in 1..(MaxLen + 1) :
    \E missed \in IF variant = "analyze_jsonl" THEN 0..MaxMissed ELSE {0} :
        ev = [pc |-> "judged", r |-> r, k |-> k, missed |-> missed, out |-> <<>>]

PrecisionAtK ==
    /\ ev.pc = "judged"
    /\ ev' = [ev EXCEPT !.pc = "precision",
                        !.out = PrecisionOf(variant, ev.r, ev.k)]
    /\ UNCHANGED <<variant, credVars, runVars, batchVars, queryVars, store, tm, proc>>

AveragePrecision ==
    /\ ev.pc = "judged"
    /\ variant # "analyze_jsonl"
    /\ ev' = [ev EXCEPT !.pc = "ap",
                        !.out = _calculate_average_precision(variant, ev.r)]
    /\ UNCHANGED <<variant, credVars, runVars, batchVars, queryVars, store, tm, proc>>

NdcgAtK ==
    /\ ev.pc = "judged"
    /\ variant # "analyze_jsonl"
    /\ ev' = [ev EXCEPT !.pc = "ndcg",
                        !.out = _calculate_ndcg_at_k(variant, ev.r, ev.k)]
    /\ UNCHANGED <<variant, credVars, runVars, batchVars, queryVars, store, tm, proc>>

RecallAtK ==
    /\ ev.pc = "judged"
    /\ ev' = [ev EXCEPT
                 !.pc = "recall",
                 !.out = CASE variant = "search_evaluator" ->
                                calculate_recall_at_k(ev.r, ev.k)
                           [] variant = "analyze_jsonl" ->
                                _calculate_recall_at_k(ev.r, ev.missed, ev.k)
                           [] OTHER ->
                                _calculate_precision_recall_f1(variant, ev.r, ev.k)]
    /\ UNCHANGED <<variant, credVars, runVars, batchVars, queryVars, store, tm, proc>>

\* ------------------------------------------------------------ overall F1
\* The F1@K reported for a set of queries. Each query brings its own
\* Precision@K and Recall@K, kept as <<p, r>> in units of 1 / Grain.
MaxQueries == 3        \* queries evaluated
Grain == 2             \* Precision@K and Recall@K are multiples of 1 / Grain

\* over the queries i..Len(prs): the sum of the precisions, the sum of the
\* recalls and the sum, as a fraction, of the queries' own
\* 2 * (precision * recall) / (precision + recall)
RECURSIVE F1Sums(_, _)
F1Sums(prs, i) ==
    IF i > Len(prs) THEN [p |-> 0, r |-> 0, f |-> <<0, 1>>]
    ELSE LET rest == F1Sums(prs, i + 1)
             own == IF prs[i][1] + prs[i][2] > 0
                    THEN <<2 * prs[i][1] * prs[i][2],
                           Grain * (prs[i][1] + prs[i][2])>>
                    ELSE <<0, 1>>
         IN  [p |-> prs[i][1] + rest.p,
              r |-> prs[i][2] + rest.r,
              f |-> <<own[1] * rest.f[2] + rest.f[1] * own[2],
                      own[2] * rest.f[2]>>]

\* analyze_search_results.py appends each query's f1_k and reports
\* statistics.mean of the list; SearchEvaluator.calculate_f1_scores takes the
\* mean precision and the mean recall and combines those
calculate_f1_scores(script, prs) ==
    LET n == Len(prs)
        sums == F1Sums(prs, 1)
    IN  IF script = "analyze_search_results"
        THEN (IF n = 0 THEN <<0, 1>> ELSE <<sums.f[1], sums.f[2] * n>>)
        ELSE IF n = 0 THEN <<>>
        ELSE IF sums.p + sums.r > 0
        THEN <<2 * sums.p * sums.r, Grain * n * (sums.p + sums.r)>>
        ELSE <<0, 1>>

OverallF1 ==
    /\ ev.pc = "measured"
    /\ ev' = [ev EXCEPT !.pc = "f1",
                        !.out = calculate_f1_scores(variant, ev.prs)]
    /\ UNCHANGED <<variant, credVars, runVars, batchVars, queryVars, store, tm, proc>>

\* ---------------------------------------------------------- specifications

InitCred ==
    /\ variant \in {"runner", "unified"}
    /\ CredInit
    /\ RunInit
    /\ BatchIdle
    /\ QueryIdle
    /\ ToolsIdle

NextCred ==
    \/ \E w \in Workers : CStart(w)
    \/ \E w \in Workers : CIntervalCheck(w)
    \/ \E w \in Workers : CProactive(w)
    \/ \E w \in Workers : CSend(w)
    \/ \E w \in Workers : \E status \in {200, 401} : CRespond(w, status)
    \/ \E w \in Workers : CAuthCheck(w)
    \/ \E w \in Workers : CReload(w)
    \/ \E w \in Workers : CRefreshLocked(w)
    \/ \E w \in Workers : \E ok \in BOOLEAN : CRefreshDone(w, ok)
    \/ \E w \in Workers : CSaveToken(w)
    \/ CTick
    \/ CAge

SpecCred == InitCred /\ [][NextCred]_vars

\* The same with every worker thread scheduled in the end whenever it can
\* take a step inside search().
SpecCredFair ==
    /\ SpecCred
    /\ \A w \in Workers :
           WF_vars(\/ CIntervalCheck(w)
                   \/ CProactive(w)
                   \/ CSend(w)
                   \/ \E status \in {200, 401} : CRespond(w, status)
                   \/ CAuthCheck(w)
                   \/ CReload(w)
                   \/ CRefreshLocked(w)
                   \/ \E ok \in BOOLEAN : CRefreshDone(w, ok)
                   \/ CSaveToken(w))

Init ==
    /\ variant \in {"runner", "unified", "agentic"}
    /\ CredInit
    /\ RunInit
    /\ BatchIdle
    /\ QueryIdle
    /\ ToolsIdle

Next ==
    \/ MStartPool
    \/ \E w \in Workers : WTake(w)
    \/ \E w \in Workers : WLoop(w)
    \/ \E w \in Workers : \E o \in SearchOutcomes : WSearchReturns(w, o)
    \/ \E w \in Workers : WUpdateBegin(w)
    \/ \E w \in Workers : WUpdateEnd(w)
    \/ \E w \in Workers : WAppendBegin(w)
    \/ \E w \in Workers : WAppendWrite(w)
    \/ \E w \in Workers : \E due \in BOOLEAN : WAppendEnd(w, due)
    \/ Signal
    \/ HReturn
    \/ FinCheck
    \/ FinSet
    \/ FinCheckpoint
    \/ FinReport
    \/ MJoin
    \/ MAtexit
    \/ MExit

Spec == Init /\ [][Next]_vars

\* One run of main() that no signal reaches. Every thread that can take a
\* step is scheduled in the end.
Proceed ==
    \/ MStartPool
    \/ \E w \in Workers : WTake(w)
    \/ \E w \in Workers : WLoop(w)
    \/ \E w \in Workers : \E o \in SearchOutcomes : WSearchReturns(w, o)
    \/ \E w \in Workers : WUpdateBegin(w)
    \/ \E w \in Workers : WUpdateEnd(w)
    \/ \E w \in Workers : WAppendBegin(w)
    \/ \E w \in Workers : WAppendWrite(w)
    \/ \E w \in Workers : \E due \in BOOLEAN : WAppendEnd(w, due)
    \/ FinCheck
    \/ FinSet
    \/ FinCheckpoint
    \/ FinReport
    \/ MJoin
    \/ MAtexit
    \/ MExit

SpecQuiet == Init /\ [][Proceed]_vars /\ WF_vars(Proceed)

\* smart_batch_runner.py: SmartBatchProcessor.process_all_questions with the
\* client, the tracker and process_single_question of multi_thread_runner.
InitBatch ==
    /\ variant = "runner"
    /\ CredInit
    /\ RunInit
    /\ BatchInit
    /\ QueryIdle
    /\ ToolsIdle

NextBatch ==
    \/ BLoad
    \/ BInitTracker
    \/ BBatchCheck
    \/ \E w \in Workers : BTake(w)
    \/ \E w \in Workers : WLoop(w)
    \/ \E w \in Workers : \E o \in SearchOutcomes : WSearchReturns(w, o)
    \/ \E w \in Workers : WUpdateBegin(w)
    \/ \E w \in Workers : WUpdateEnd(w)
    \/ \E w \in Workers : WAppendBegin(w)
    \/ \E w \in Workers : WAppendWrite(w)
    \/ \E w \in Workers : \E due \in BOOLEAN : WAppendEnd(w, due)
    \/ \E due \in BOOLEAN : BBatchDone(due)
    \/ BFinalize
    \/ FinCheck
    \/ FinSet
    \/ FinCheckpoint
    \/ FinReport
    \/ BSave
    \/ CTick
    \/ CAge

SpecBatch == InitBatch /\ [][NextBatch]_vars

\* The writers of the stored credential: EnhancedTokenManager (unified),
\* DataverseSearchClient._save_token (runner), SilentTokenGenerator (silent).
InitStore ==
    /\ variant \in {"runner", "unified", "silent"}
    /\ CredInit
    /\ RunInit
    /\ BatchIdle
    /\ QueryIdle
    /\ StoreInit /\ TokenIdle /\ ExitIdle /\ EvalIdle

NextStore ==
    \/ \E rotated \in BOOLEAN : SBegin(rotated)
    \/ SOpen
    \/ SWrite
    \/ SLegacyOpen
    \/ SLegacyWrite
    \/ SCrash

SpecStore == InitStore /\ [][NextStore]_vars

\* EnhancedTokenManager.get_valid_access_token, called once.
InitToken ==
    /\ variant = "unified"
    /\ CredInit
    /\ RunInit
    /\ BatchIdle
    /\ QueryIdle
    /\ StoreIdle /\ TokenInit /\ ExitIdle /\ EvalIdle

NextToken ==
    \/ TGetValid
    \/ \E answer \in {"ok", "401", "error"} : TRefresh(answer)
    \/ \E ok \in BOOLEAN : TDeviceStart(ok)
    \/ \E answer \in {"200", "pending", "neterror", "denied"} : TPoll(answer)
    \/ TInterrupted
    \/ TTimeout
    \/ Signal
    \/ HReturn

SpecToken == InitToken /\ [][NextToken]_vars

\* Start, interruption and exit of multi_thread_runner.py (runner),
\* multi_thread_unified_search.py (unified) and
\* multi_thread_unstructured_search.py (unstructured).
InitExit ==
    /\ variant \in {"runner", "unified", "unstructured"}
    /\ CredInit
    /\ RunInit
    /\ BatchIdle
    /\ QueryIdle
    /\ StoreIdle /\ TokenIdle /\ ExitInit /\ EvalIdle

NextExit ==
    \/ \E usable \in BOOLEAN : PSetup(usable)
    \/ \E i \in Items : \E ok \in BOOLEAN : PQuery(i, ok)
    \/ PInterrupt
    \/ PFinish

SpecExit == InitExit /\ [][NextExit]_vars

\* One question from process_single_question's entry to the result it
\* records, in each of the three scripts.
InitQuery ==
    /\ variant \in {"runner", "unified", "agentic"}
    /\ CredInit
    /\ RunInit
    /\ BatchIdle
    /\ QueryInit
    /\ ToolsIdle

NextQuery ==
    \/ QLoop
    \/ \E r \in Responses : QRespond(r)
    \/ QAfterSearch

SpecQuery == InitQuery /\ [][NextQuery]_vars

InitScore ==
    /\ variant \in {"unified_scorer", "simplified_scorer", "search_evaluator"}
    /\ CredInit
    /\ RunInit
    /\ BatchIdle
    /\ QueryIdle
    /\ StoreIdle /\ TokenIdle /\ ExitIdle /\ ScoreInit

NextScore == ScoreCall

SpecScore == InitScore /\ [][NextScore]_vars

InitMetric ==
    /\ variant \in {"analyze_search_results", "analyze_agentic_search_results",
                    "search_evaluator", "analyze_jsonl"}
    /\ CredInit
    /\ RunInit
    /\ BatchIdle
    /\ QueryIdle
    /\ StoreIdle /\ TokenIdle /\ ExitIdle /\ MetricInit

NextMetric ==
    \/ AveragePrecision
    \/ RecallAtK
    \/ NdcgAtK
    \/ PrecisionAtK

SpecMetric == InitMetric /\ [][NextMetric]_vars

InitF1 ==
    /\ variant \in {"analyze_search_results", "search_evaluator"}
    /\ CredInit
    /\ RunInit
    /\ BatchIdle
    /\ QueryIdle
    /\ StoreIdle /\ TokenIdle /\ ExitIdle
    /\ \E n \in 0..MaxQueries : \E prs \in [1..n -> (0..Grain) \X (0..Grain)] :
           \* both analyzers' values share the numerator relevant_in_k; the
           \* evaluator's recall is 0 or 1, and 1 needs a label >= 3 in the
           \* top K, which makes the precision positive
           /\ \A i \in 1..n :
                  IF variant = "search_evaluator"
                  THEN prs[i][2] \in {0, Grain} /\ (prs[i][2] > 0 => prs[i][1] > 0)
                  ELSE prs[i][1] > 0 <=> prs[i][2] > 0
           /\ ev = [pc |-> "measured", prs |-> prs, out |-> <<>>]

NextF1 == OverallF1

SpecF1 == InitF1 /\ [][NextF1]_vars

\* ------------------------------------------------- credential properties

\* C1: when several workers trigger a credential refresh at the same time,
\* exactly one network refresh call is made (no more than one unless one
\* failed), and every request a worker sends afterwards carries the
\* credential that refresh stored.
C1_SingleRefreshCall ==
    /\ failedRefreshes = 0 => netRefreshCalls <= 1
    /\ \A w \in Workers :
          cw[w].pc = "wait" /\ cw[w].reqAfter # 0 /\ netRefreshCalls = 1
             => cw[w].reqToken = cw[w].reqAfter

\* C1, its case: two workers are in a refresh path and a network refresh
\* call has been made.
C1_Case ==
    /\ Cardinality({w \in Workers : cw[w].path # "none"}) >= 2
    /\ netRefreshCalls >= 1

\* C2: at any time at most one credential refresh attempt is in flight.
C2_OneRefreshInFlight ==
    Cardinality({w \in Workers : cw[w].pc = "refreshing"}) <= 1

\* C2, its case: one worker's refresh is in flight while another worker
\* needs a valid credential.
C2_Case ==
    \E w1, w2 \in Workers :
        /\ w1 # w2
        /\ cw[w1].pc = "refreshing"
        /\ cw[w2].pc \in {"wantLock", "wantRefresh", "reload", "authError"}

\* C3: once a credential refresh has completed, every request that starts
\* carries the refreshed credential, never the old one.
C3_NoStaleAfterRefresh ==
    \A w \in Workers :
        cw[w].pc = "wait" /\ cw[w].reqAfter # 0 => cw[w].reqToken = cw[w].reqAfter

\* C3, its case: a request has been sent after a refresh completed.
C3_Case == \E w \in Workers : cw[w].pc = "wait" /\ cw[w].reqAfter # 0

\* -------------------------------------------------------- run properties

\* C4: finalization runs at most once in a run, whichever paths call it and
\* even when their calls overlap; every later call does nothing.
C4_FinalizeAtMostOnce == finalizeRuns <= 1

\* C4, its case: finalize_output is called again after the run was finalized.
C4_Case == finalized /\ finalizeRuns >= 1 /\ Top.who = "fin" /\ Top.at = "check"

\* C5: after a first interrupt the run drains: requests in flight finish and
\* are appended before finalization, so at exit the final report and the
\* final checkpoint hold every counter and every record of the log.
C5_GracefulDrainFlushesAll ==
    procState = "exited" /\ signals = 1 =>
        /\ report.written
        /\ report.successful = counters.successful
        /\ report.failed = counters.failed
        /\ variant # "agentic" =>
              /\ report.results = Len(log)
              /\ ckpt.written /\ ckpt.completed = counters.completed

\* C5, its case: a run that got one interrupt has exited with records in the log.
C5_Case == procState = "exited" /\ signals = 1 /\ Len(log) >= 1

\* C6: a second interrupt terminates the process at once: its handler
\* writes no checkpoint and no final report, and never returns to the
\* interrupted code.
C6_SecondSignalTerminates ==
    /\ ckpt.by < 2 /\ report.by < 2
    /\ \A k \in 1..Len(mstack) :
          mstack[k].who = "handler" /\ mstack[k].n >= 2 => mstack[k].at # "return"

\* C6, its case: a second interrupt has arrived with records in the log and
\* the process is gone.
C6_Case == signals = 2 /\ Len(log) >= 1 /\ procState = "killed"

\* C7: every item a worker started has exactly one record in the results
\* file once it reached its terminal outcome, however many retries it took,
\* and never more than one.
C7_OneRecordPerItem ==
    \A i \in Items :
        LET records == Cardinality({k \in 1..Len(log) : log[k] = i})
        IN /\ records <= 1
           /\ outcome[i] \in {"recorded", "raised"} => records = 1

\* C7, its case: an item that was retried has its record written.
C7_Case == \E w \in Workers : pw[w].pc = "count" /\ pw[w].retry >= 1

\* C8: process_single_question never raises to the pool: every outcome is
\* returned as a result.
C8_NeverRaises == \A i \in Items : outcome[i] # "raised"

\* C8, its case: a failed query has come back as a result.
C8_Case == \E w \in Workers : pw[w].pc = "update" /\ ~Success(pw[w].res)

\* C9: appends to the results file are serialized: at most one pool thread
\* is writing a record at any time.
C9_OneWriter ==
    Cardinality({w \in Workers : pw[w].pc = "writing"}) <= 1

\* C9, its case: one thread is writing while another is about to append.
C9_Case ==
    \E w1, w2 \in Workers :
        w1 # w2 /\ pw[w1].pc = "writing" /\ pw[w2].pc = "append"

\* C10: checkpoints and the final report are taken between two complete
\* counter updates: in every written file completed = successful + failed.
C10_SnapshotsBetweenUpdates ==
    /\ ckpt.written => ckpt.completed = ckpt.successful + ckpt.failed
    /\ report.written => report.completed = report.successful + report.failed

\* C10, its case: a checkpoint and a final report were written after updates.
C10_Case ==
    /\ ckpt.written /\ ckpt.completed >= 1
    /\ report.written /\ report.completed >= 1

\* ------------------------------------------------ batch runner properties

\* C11: the completed count of the tracker never decreases and never exceeds
\* the total number of questions, also in a run resumed from a checkpoint.
C11_CompletedMonotoneBounded ==
    /\ [](counters.completed <= NumItems)
    /\ [][counters'.completed >= counters.completed]_vars

\* A resumed run (0 < start_index < total) has processed its last question.
C11_Case ==
    /\ startIndex > 0 /\ startIndex < NumItems
    /\ bpc = "done" /\ counters.completed = NumItems

\* C12: if an earlier run left a checkpoint recording C completed questions
\* out of N, the restarted run issues queries for exactly the remaining
\* N - C questions and its final report counts N completed.
C12_ResumeIssuesRemaining ==
    bpc = "done" /\ priorRun.completed > 0 =>
        /\ Cardinality({i \in Items : outcome[i] # "queued"})
              = NumItems - priorRun.completed
        /\ report.written /\ report.completed = NumItems

\* A run restarted after an earlier one had checkpointed part of the
\* questions has come to its end.
C12_Case ==
    /\ bpc = "done"
    /\ priorRun.completed > 0 /\ priorRun.completed < NumItems

\* C13: on resume the success and failure counts of the earlier run are in
\* the tracker before any new work starts, as the completed count is.
C13_PriorCountersLoaded ==
    startIndex > 0 /\ bpc \notin {"load", "init"} =>
        /\ counters.completed >= priorRun.completed
        /\ counters.successful >= priorRun.successful
        /\ counters.failed >= priorRun.failed

\* A resumed run stands before its first batch.
C13_Case == startIndex > 0 /\ bpc = "batch" /\ batchStart = 0

\* ------------------------------------------------------ report properties

\* C14: at true completion (every question processed, no interrupt)
\* finalization has read back the results file and written one consolidated
\* report that holds every record appended during the run.
C14_ReportHoldsEveryRecord ==
    procState = "exited" /\ signals = 0 =>
        /\ report.written /\ finalizeRuns = 1
        /\ report.results = Len(log)

\* A run with no interrupt has ended with records in its results file.
C14_Case == procState = "exited" /\ signals = 0 /\ Len(log) = NumItems

\* --------------------------------------------------- error handling rules

\* C15: after an authorization failure the client asks for one refresh and
\* retries the request once, with the new credential: a retry in flight was
\* preceded by the refresh and carries a credential that came from a
\* refresh, the refresh does not leave the worker stuck, and no query is
\* retried a second time.
C15_RefreshThenOneRetry ==
    \A w \in Workers :
        /\ cw[w].attempt <= RetryCount
        /\ cw[w].path = "auth" => cw[w].pc # "selfLocked"
        /\ cw[w].pc = "wait" /\ cw[w].attempt = 1 =>
              /\ cw[w].path = "auth"
              /\ cw[w].reqToken # 0

\* The retry of a request that met an authorization failure is in flight.
C15_Case == \E w \in Workers : cw[w].pc = "wait" /\ cw[w].attempt = 1

\* C16: an authorization failure that stays unresolved (the refresh failed,
\* or the retry was rejected again) ends the query with a result marked as
\* requiring manual credential refresh.
C16_UnresolvedAuthMarked ==
    \A w \in Workers :
        cw[w].result \in {"TokenExpiredError", "HTTPError"} =>
            RequiresManualTokenRefresh(cw[w].result)

\* search() has returned after its retry was rejected again.
C16_Case == \E w \in Workers : cw[w].pc = "idle" /\ cw[w].result = "HTTPError"

\* C17: a timeout is retried, a small fixed number of times at most, and a
\* query whose every request timed out ends as a failure.
C17_TimeoutRetriedBounded ==
    q.pc = "done" /\ (\A i \in 1..Len(q.resps) : q.resps[i] = "timeout") =>
        /\ Len(q.resps) > 1
        /\ Len(q.resps) <= (MaxRetries + 1) * (RetryCount + 1)

\* A query has ended after nothing but timeouts.
C17_Case ==
    /\ q.pc = "done" /\ Len(q.resps) >= 1
    /\ \A i \in 1..Len(q.resps) : q.resps[i] = "timeout"

\* C18: a gateway-busy response (504) is retried with exponential backoff:
\* the query is sent again, each delay between two requests is double the
\* one before, and the number of requests is bounded.
C18_OverloadBackoffDoubles ==
    q.pc = "done" /\ (\A i \in 1..Len(q.resps) : q.resps[i] = "504") =>
        /\ Len(q.resps) > 1
        /\ Len(q.resps) <= (MaxRetries + 1) * (RetryCount + 1)
        /\ Len(q.delays) = Len(q.resps) - 1
        /\ \A i \in 2..Len(q.delays) : q.delays[i] = 2 * q.delays[i - 1]

\* A query has ended after nothing but 504 responses.
C18_Case ==
    /\ q.pc = "done" /\ Len(q.resps) >= 1
    /\ \A i \in 1..Len(q.resps) : q.resps[i] = "504"

\* C19: a 4xx response other than an authorization failure is terminal: no
\* request follows it, from the client or from the worker's retry loop.
C19_ClientErrorTerminal ==
    \A i \in 1..Len(q.resps) : q.resps[i] = "404" =>
        /\ i = Len(q.resps)
        /\ q.pc \in {"returned", "done"}

\* A 404 has been received.
C19_Case == Len(q.resps) >= 1 /\ q.resps[Len(q.resps)] = "404"

\* C20: a credential that cannot be obtained is fatal for the calling
\* operation only: the run goes on with the remaining queries. No question
\* of the run is left unissued with the run stopped in its credential check.
C20_CredentialFailureNotFatal ==
    \A i \in Items :
        i > startIndex /\ outcome[i] = "queued" => bpc # "selfLocked"

\* The credential check before a batch met a credential in need of refresh.
C20_Case == bpc = "selfLocked" /\ ~TokenValid(token)

\* ---------------------------------------------------------- cancellation

\* C21: cancellation is checked before each retry: once shutdown_requested
\* is set, no worker that stands before a retry sends the request.
C21_NoRetryAfterCancel ==
    [][\A w \in Workers :
          shutdown_requested /\ pw[w].pc = "loop" /\ pw[w].retry > 0
              => pw'[w].pc # "search"]_vars

\* A worker stands before a retry with shutdown_requested set.
C21_Case ==
    /\ shutdown_requested
    /\ \E w \in Workers : pw[w].pc = "loop" /\ pw[w].retry > 0

\* C22: after the first interrupt, questions not yet started are abandoned:
\* a question that no worker had begun when shutdown_requested was set never
\* becomes one a request is sent for.
C22_UnstartedAbandoned ==
    [][\A i \in Items :
          shutdown_requested /\ outcome[i] \in {"queued", "skipped"}
              => outcome'[i] \in {"queued", "skipped"}]_vars

\* A question was taken from the queue after the interrupt and given up.
C22_Case ==
    /\ shutdown_requested
    /\ \E i \in Items : outcome[i] = "skipped"

\* ---------------------------------------------------- stored credential

\* C23: the credential record is stored atomically: whenever the process
\* dies, the credential file holds the whole record of the last completed
\* save or the whole new record, never a part of one.
C23_StoredRecordWhole ==
    store.crashed => store.file = store.old \/ store.file = store.new

\* The process died while a writer was storing a new credential.
C23_Case == store.crashed /\ store.pc \in {"write", "legacy", "legacyWrite"}

\* ------------------------------------------------------- token manager

C25_ExitCodes ==
    proc.pc = "exited" =>
        /\ ~proc.setupOk => proc.code # 0
        /\ proc.setupOk /\ proc.interrupts <= 1 => proc.code = 0 /\ proc.saved

\* The process was interrupted once, saved its partial results and ended.
C25_Case ==
    proc.pc = "exited" /\ proc.interrupts = 1 /\ proc.saved

\* ----------------------------------------------------- relevance scoring

\* C26: a scoring call returns a label in {0, 1, 2, 3} for every candidate
\* and every question type, the unknown question types included.
C26_LabelInRange ==
    ev.pc = "scored" => Len(ev.out) = 1 /\ ev.out[1] \in 0..3

\* A candidate of an unknown question type has been scored.
C26_Case == ev.pc = "scored" /\ ev.c.qtype = "Other"

\* C27: every scoring branch is total: whatever the candidate's fields are
\* (missing, empty, not a number), the call returns a label and never
\* raises.
C27_NeverRaises ==
    ev.pc = "scored" => ev.out # <<>>

\* A candidate whose fields are missing or malformed has been scored.
C27_Case == ev.pc = "scored" /\ ev.c.fields # "ok"

\* C28: for a CategoryAttribute intent, a candidate whose Category score is
\* 0 gets the label 0, whatever its attribute coverage.
C28_CategoryFirst ==
    /\ ev.pc = "scored"
    /\ ev.c.qtype \in {"Category + Attribute value", "Attribute value"}
    /\ \/ variant = "unified_scorer" /\ _score_category(ev.c) = 0
       \/ variant = "simplified_scorer" /\ _score_category_simplified(ev.c) = 0
    => ev.out = <<0>>

\* A CategoryAttribute candidate with Category score 0 that matches some of
\* the attributes has been scored.
C28_Case ==
    /\ ev.pc = "scored"
    /\ ev.c.qtype \in {"Category + Attribute value", "Attribute value"}
    /\ \/ variant = "unified_scorer" /\ _score_category(ev.c) = 0
       \/ variant = "simplified_scorer" /\ _score_category_simplified(ev.c) = 0
    /\ ev.c.hits2 > 0

\* ------------------------------------------------------- ranking metrics

\* the positions of r that hold a label >= 2
RelevantPositions(r) == {i \in 1..Len(r) : r[i] >= 2}

\* the sum over the positions in S of the precision at that rank, in units
\* of 1 / Factorial(Len(r))
RECURSIVE PrecisionSum(_, _)
PrecisionSum(r, S) ==
    IF S = {} THEN 0
    ELSE LET i == CHOOSE j \in S : TRUE
         IN  Cardinality({j \in RelevantPositions(r) : j <= i})
                 * (Factorial(Len(r)) \div i)
             + PrecisionSum(r, S \ {i})

\* C29: Average Precision treats every label >= 2 as relevant and is the
\* mean, over the relevant positions, of the precision at that rank, and 0
\* when nothing is relevant; for the labels [3,0,2,0,1] it is
\* (1/1 + 2/3)/2 = 5/6.
C29_AveragePrecision ==
    ev.pc = "ap" /\ ev.out # <<>> =>
        /\ RelevantPositions(ev.r) = {} => ev.out[1] = 0
        /\ RelevantPositions(ev.r) # {} =>
               ev.out[1] * Cardinality(RelevantPositions(ev.r))
                         * Factorial(Len(ev.r))
                   = PrecisionSum(ev.r, RelevantPositions(ev.r)) * ev.out[2]
        /\ ev.r = <<3, 0, 2, 0, 1>> => 6 * ev.out[1] = 5 * ev.out[2]

\* The Average Precision of the labels [3,0,2,0,1] has been computed.
C29_Case == ev.pc = "ap" /\ ev.r = <<3, 0, 2, 0, 1>>

\* C30: Recall@K is the number of labels >= 2 among the first min(K, n)
\* positions divided by max(1, the number of labels >= 2 in the sequence).
C30_RecallAtK ==
    ev.pc = "recall" /\ ev.out # <<>> =>
        ev.out[1] * Max(1, Cardinality(RelevantPositions(ev.r)))
            = Cardinality({i \in RelevantPositions(ev.r) : i <= Min(ev.k, Len(ev.r))})
                  * ev.out[2]

\* Recall@K has been computed where K cuts the sequence before a relevant
\* result.
C30_Case ==
    /\ ev.pc = "recall"
    /\ ev.k < Len(ev.r)
    /\ \E i \in RelevantPositions(ev.r) : i > ev.k
    /\ \E i \in RelevantPositions(ev.r) : i <= ev.k

\* C31 as stated: if all labels of the sequence are equal, NDCG@K = 1 for
\* any K <= n.
C31_EqualLabelsNdcgOne ==
    /\ ev.pc = "ndcg"
    /\ Len(ev.r) >= 1 /\ ev.k <= Len(ev.r)
    /\ \A i \in 1..Len(ev.r) : ev.r[i] = ev.r[1]
    => ev.out # <<>> /\ ev.out[1] = ev.out[2]

\* C31, amended: if all labels of the sequence are equal and greater than 0,
\* NDCG@K = 1 for any K <= n; if they are all 0, IDCG is 0 and NDCG@K = 0.
C31_EqualPositiveLabelsNdcgOne ==
    /\ ev.pc = "ndcg"
    /\ Len(ev.r) >= 1 /\ ev.k <= Len(ev.r)
    /\ \A i \in 1..Len(ev.r) : ev.r[i] = ev.r[1]
    => /\ ev.out # <<>>
       /\ ev.r[1] > 0 => ev.out[1] = ev.out[2]
       /\ ev.r[1] = 0 => ev.out[1] = 0

\* NDCG@K of several equal labels greater than 0 has been computed with K
\* below n.
C31_Case ==
    /\ ev.pc = "ndcg"
    /\ Len(ev.r) >= 3 /\ ev.k < Len(ev.r)
    /\ \A i \in 1..Len(ev.r) : ev.r[i] = 2

RECURSIVE PerQueryF1Sum(_, _)
PerQueryF1Sum(prs, S) ==
    IF S = {} THEN <<0, 1>>
    ELSE LET i == CHOOSE j \in S : TRUE
             rest == PerQueryF1Sum(prs, S \ {i})
             P == prs[i][1]
             R == prs[i][2]
         IN  IF P + R = 0 THEN rest
             ELSE <<2 * P * R * rest[2] + rest[1] * Grain * (P + R),
                    Grain * (P + R) * rest[2]>>

\* C33: the overall F1@K is the arithmetic mean of the per-query F1@K
\* values, each being 2PR/(P+R) of that query's own Precision@K and
\* Recall@K, or 0 when P+R = 0.
C33_F1MeanOfPerQuery ==
    ev.pc = "f1" /\ Len(ev.prs) >= 1 /\ ev.out # <<>> =>
        ev.out[1] * PerQueryF1Sum(ev.prs, DOMAIN ev.prs)[2] * Len(ev.prs)
            = PerQueryF1Sum(ev.prs, DOMAIN ev.prs)[1] * ev.out[2]

\* The overall F1@K of two queries has been computed, one with precision and
\* no recall and one with both.
C33_Case ==
    /\ ev.pc = "f1"
    /\ Len(ev.prs) = 2
    /\ ev.prs[1][1] > 0 /\ ev.prs[1][2] = 0
    /\ ev.prs[2][1] > 0 /\ ev.prs[2][2] > 0

\* ------------------------------------------------------------ termination

\* C34: no worker blocks forever on the credential lock: a thread that holds
\* _token_lock in the proactive check or in a refresh never tries to take
\* it again, whether the credential is valid, invalid or has changed.
C34_NoSelfDeadlockOnTokenLock ==
    \A w \in Workers : cw[w].pc # "selfLocked"

\* A worker holds _token_lock and waits for it, so that no other worker can
\* ever take it.
C34_Case ==
    \E w \in Workers :
        /\ cw[w].pc = "selfLocked" /\ tokenLock = w
        /\ \E v \in Workers \ {w} : cw[v].pc \in {"wantLock", "wantRefresh", "reload", "save"}

\* C35: in the agentic script, recording a failed query terminates:
\* ProgressTracker.update called for an unsuccessful result returns and
\* releases the tracker lock, so that the append that follows and the other
\* workers' updates can proceed.
C35_FailedUpdateReturns ==
    variant = "agentic" =>
        \A w \in Workers :
            /\ pw[w].pc # "selfLocked"
            /\ pw[w].pc = "append" => trackerLock # w

\* In the agentic script a worker is inside update for a failed query and
\* another worker waits to enter update.
C35_Case ==
    /\ variant = "agentic"
    /\ \E w \in Workers :
           /\ trackerLock = w /\ ~Success(pw[w].res)
           /\ pw[w].pc \in {"updating", "selfLocked"}
           /\ \E v \in Workers \ {w} : pw[v].pc = "update"

\* C36: a run that receives no cancellation signal terminates in the end
\* with every submitted item recorded (completed = total) and the
\* finalization executed, whatever mix of successful and failed queries.
C36_QuietRunTerminates ==
    <>(/\ procState = "exited"
       /\ counters.completed = NumItems
       /\ finalizeRuns >= 1)

\* A run without signals in which a query has failed and another has
\* succeeded.
C36_Case ==
    /\ signals = 0
    /\ counters.failed >= 1 /\ counters.successful >= 1

\* C37: the processing of one item always terminates after a bounded number
\* of network requests, whatever failures the service returns: every call
\* of search() that process_single_question makes sends at most
\* retry_count + 1 requests and returns.
C37_SearchBoundedAndReturns ==
    /\ [](\A w \in Workers : cw[w].attempt <= RetryCount)
    /\ \A w \in Workers : (cw[w].pc # "idle") ~> (cw[w].pc = "idle")

\* A search() call has had its request rejected and is about to deal with
\* the credential.
C37_Case == \E w \in Workers : cw[w].pc = "authError" /\ cw[w].attempt = 0

\* ---- counters

\* C38: whenever no call of ProgressTracker.update is in progress, the
\* completed count is the success count plus the failure count, in every
\* variant and also after a resume from a checkpoint.
C38_CompletedIsSum ==
    (\A w \in Workers : pw[w].pc # "updating")
        => counters.completed = counters.successful + counters.failed

\* A resumed run has recorded an item and no update is in progress.
C38_Case ==
    /\ startIndex > 0 /\ bpc = "pool"
    /\ counters.successful + counters.failed >= 1
    /\ \A w \in Workers : pw[w].pc # "updating"

\* C39: when all workers have finished, results_written equals the number
\* of records in the results file and the number of items counted as
\* completed in this run, for any interleaving of the workers.
C39_WrittenIsLoggedIsCompleted ==
    (\A w \in Workers : pw[w].pc = "idle")
        => /\ counters.results_written = Len(log)
           /\ counters.results_written = counters.completed

\* Every worker of the runner has finished and more than one record has
\* been appended.
C39_Case ==
    /\ variant = "runner"
    /\ \A w \in Workers : pw[w].pc = "idle"
    /\ Len(log) >= 2

====
